---- MODULE Spec2Model ----
(***************************************************************************)
(* Task Manager API (Express + Mongoose + JWT).                            *)
(*                                                                         *)
(* The state is the two collections (users, tasks), the clock, the set of  *)
(* tokens signed so far, the requests in flight and the response sent by   *)
(* the last step.  One action is one store operation of a request together *)
(* with the synchronous code that runs up to the next await: the store is  *)
(* the only thing two requests share, so these are the interleaving        *)
(* points.  A request's arrival is taken together with its first store     *)
(* operation.                                                              *)
(***************************************************************************)
EXTENDS Integers, Sequences, FiniteSets, TLC

VARIABLES users, tasks, now, issued, slot, resp

vars == <<users, tasks, now, issued, slot, resp>>

----------------------------------------------------------------------------
(* Bounds *)

MaxTasks == 2
MaxUsers == 4
MaxTicks == 2

Slots == {1, 2}

----------------------------------------------------------------------------
(* Values *)

Undef == "undefined"
NoDate == -1
AbsentDate == -2

Statuses == {"pending", "in-progress", "completed", "cancelled"}
Priorities == {"low", "medium", "high"}

\* jwt.sign(..., { expiresIn: "24h" }): the clock counts hours.
ExpiresIn == 24
TickHours == ExpiresIn \div 2

----------------------------------------------------------------------------
(* Tokens: jwt.sign / jwt.verify *)

NoToken == [uid |-> 0, iat |-> 0, sig |-> "none"]
ForgedToken == [uid |-> 1, iat |-> 0, sig |-> "bad"]

generateToken(userId, t) == [uid |-> userId, iat |-> t, sig |-> "ok"]

TokenExp(tok) == tok.iat + ExpiresIn

\* a verify that still accepts a token at the instant it expires
jwtVerifyLate(tok, t) ==
  IF tok.sig # "ok" THEN "JsonWebTokenError"
  ELSE IF t > TokenExp(tok) THEN "TokenExpiredError"
  ELSE "ok"

\* jwt.verify: the signature first, then the expiry (expired when clock >= exp)
jwtVerify(tok, t) ==
  IF tok.sig # "ok" THEN "JsonWebTokenError"
  ELSE IF t >= TokenExp(tok) THEN "TokenExpiredError"
  ELSE "ok"

----------------------------------------------------------------------------
(* Requests and responses *)

\* req.body, and for a GET req.query: a field that is not sent is Undef
Body(title, status, priority, dueDate) ==
  [title |-> title, status |-> status, priority |-> priority, dueDate |-> dueDate,
   description |-> Undef, tags |-> Undef, owner |-> 0, completedAt |-> AbsentDate,
   page |-> Undef, limit |-> Undef, role |-> Undef,
   isActive |-> Undef, username |-> Undef, email |-> Undef, password |-> Undef]

NoBody == Body(Undef, Undef, Undef, AbsentDate)

UserBody(username, email, password) ==
  [NoBody EXCEPT !.username = username, !.email = email, !.password = password]

StatusBody(isActive) == [NoBody EXCEPT !.isActive = isActive]

\* a request: the route, the Authorization header's token, :id, the JSON body
Request(route, tok, id, body) == [route |-> route, tok |-> tok, id |-> id, body |-> body]

NoReq == Request("none", NoToken, 0, NoBody)

\* a response: the request it answers, req.user's id when it was sent (0: none),
\* the status, the body's error and message, the task and the token it carries
\* a JavaScript number: an integer, Infinity or NaN
Num(n) == [kind |-> "finite", n |-> n]
Infinity == [kind |-> "Infinity", n |-> 0]
NaN == [kind |-> "NaN", n |-> 0]

NoPagination == [page |-> 0, limit |-> 0, total |-> 0, pages |-> Num(0)]

NoStats == [total |-> 0, overdue |-> 0, byStatus |-> << >>, byPriority |-> << >>]

\* ... and, where the route sends them, the list of records (their ids), the
\* pagination object, the stats object, and the fields of each user object in it
Respond(req, uid, status, error, message) ==
  [req |-> req, uid |-> uid, status |-> status, error |-> error, message |-> message,
   task |-> 0, token |-> NoToken,
   items |-> << >>, pagination |-> NoPagination, stats |-> NoStats, view |-> {},
   errors |-> {}]

NoResp == Respond(NoReq, 0, 0, "", "")

Ok(req, uid, status, message, task) ==
  [Respond(req, uid, status, "", message) EXCEPT !.task = task]

\* an entry of the errors list
FieldError(field, message) == [field |-> field, message |-> message]

\* a handler without the branch for errors that carry a statusCode
errorHandlerNoStatusCode(err, req, uid) ==
  LET s1 == IF err.name = "ValidationError" \/ err.code = 11000 \/ err.name = "CastError"
              THEN 400
              ELSE IF err.name \in {"JsonWebTokenError", "TokenExpiredError"}
                     THEN 401 ELSE 500
      m1 == IF err.name = "TokenExpiredError" THEN "Token expired"
            ELSE IF err.name = "JsonWebTokenError" THEN "Invalid token"
            ELSE IF err.name = "CastError" THEN "Invalid ID Format"
            ELSE IF err.code = 11000 THEN "Duplicate Error"
            ELSE IF err.name = "ValidationError" THEN "Validation Error"
            ELSE "Internal Server Error"
      e1 == IF err.name = "CastError" THEN {FieldError(err.path, "Invalid ID format")}
            ELSE IF err.code = 11000
              THEN {FieldError(err.keyValue, err.keyValue \o " already exists")}
            ELSE IF err.name = "ValidationError"
              THEN {FieldError(p, "validator message") : p \in err.paths}
            ELSE {}
  IN  [Respond(req, uid, s1, m1, Undef) EXCEPT !.errors = e1]

\* errorHandler: the envelope is {error: message, errors?, stack?}; it carries no
\* "message" field (Undef here), and its errors list is the set of its entries,
\* empty when the envelope has none.  The text of a validator's message is not
\* modelled.  err = [name, code, statusCode, message, paths, keyValue, path].
errorHandler(err, req, uid) ==
  LET s0 == 500
      m0 == "Internal Server Error"
      e0 == {}
      s1 == IF err.name = "ValidationError" THEN 400 ELSE s0
      m1 == IF err.name = "ValidationError" THEN "Validation Error" ELSE m0
      e1 == IF err.name = "ValidationError"
              THEN {FieldError(p, "validator message") : p \in err.paths}
              ELSE e0
      s2 == IF err.code = 11000 THEN 400 ELSE s1
      m2 == IF err.code = 11000 THEN "Duplicate Error" ELSE m1
      e2 == IF err.code = 11000
              THEN {FieldError(err.keyValue, err.keyValue \o " already exists")}
              ELSE e1
      s3 == IF err.name = "CastError" THEN 400 ELSE s2
      m3 == IF err.name = "CastError" THEN "Invalid ID Format" ELSE m2
      e3 == IF err.name = "CastError"
              THEN {FieldError(err.path, "Invalid ID format")}
              ELSE e2
      s4 == IF err.name = "JsonWebTokenError" THEN 401 ELSE s3
      m4 == IF err.name = "JsonWebTokenError" THEN "Invalid token" ELSE m3
      s5 == IF err.name = "TokenExpiredError" THEN 401 ELSE s4
      m5 == IF err.name = "TokenExpiredError" THEN "Token expired" ELSE m4
      s6 == IF err.statusCode # 0 THEN err.statusCode ELSE s5
      m6 == IF err.statusCode # 0 THEN err.message ELSE m5
  IN  [Respond(req, uid, s6, m6, Undef) EXCEPT !.errors = e3]

\* an error object: its name, its code and statusCode (0 when it has none), its
\* message, the paths of a ValidationError, the first key of a duplicate-key
\* error's keyValue, the path of a CastError
Err(name, code) ==
  [name |-> name, code |-> code, statusCode |-> 0, message |-> "",
   paths |-> {}, keyValue |-> Undef, path |-> Undef]

\* the ValidationError of a document whose paths in `paths` fail
ValidationError(paths) == [Err("ValidationError", 0) EXCEPT !.paths = paths]

\* the duplicate-key error of a unique index on `field`
DuplicateKeyError(field) == [Err("MongoServerError", 11000) EXCEPT !.keyValue = field]

----------------------------------------------------------------------------
(* Users *)

\* bcrypt.hash / bcrypt.compare
Hash(p) == "bcrypt$" \o p

\* a comparison that accepts every password
comparePasswordAny(candidate, stored) == TRUE

comparePassword(candidate, stored) == Hash(candidate) = stored

\* the schema's lowercase setter, on the emails of the model
ToLower(e) ==
  CASE e = "A@X.COM" -> "a@x.com"
    [] e = "C@X.COM" -> "c@x.com"
    [] OTHER -> e

User(username, email, password, role, isActive) ==
  [username |-> username, email |-> email, password |-> password, role |-> role,
   isActive |-> isActive]

UserIds(U) == DOMAIN U

----------------------------------------------------------------------------
(* Auth middleware and role guard *)

AuthResult(next, status, error, message, user) ==
  [next |-> next, status |-> status, error |-> error, message |-> message, user |-> user]

\* a middleware that does not look at isActive
authenticateTokenAnyActive(tok, t, U) ==
  IF tok.sig = "none"
    THEN AuthResult(FALSE, 401, "Access denied", "No token provided", 0)
  ELSE IF jwtVerify(tok, t) = "JsonWebTokenError"
    THEN AuthResult(FALSE, 401, "Access denied", "Invalid token", 0)
  ELSE IF jwtVerify(tok, t) = "TokenExpiredError"
    THEN AuthResult(FALSE, 401, "Access denied", "Token expired", 0)
  ELSE IF tok.uid \notin UserIds(U)
    THEN AuthResult(FALSE, 401, "Access denied", "Invalid token - user not found", 0)
  ELSE AuthResult(TRUE, 0, "", "", tok.uid)

\* middleware/authMiddlesware.js: the middleware the routers mount
authenticateToken(tok, t, U) ==
  IF tok.sig = "none"
    THEN AuthResult(FALSE, 401, "Access denied", "No token provided", 0)
  ELSE IF jwtVerify(tok, t) = "JsonWebTokenError"
    THEN AuthResult(FALSE, 401, "Access denied", "Invalid token", 0)
  ELSE IF jwtVerify(tok, t) = "TokenExpiredError"
    THEN AuthResult(FALSE, 401, "Access denied", "Token expired", 0)
  ELSE IF tok.uid \notin UserIds(U)
    THEN AuthResult(FALSE, 401, "Access denied", "Invalid token - user not found", 0)
  ELSE IF ~U[tok.uid].isActive
    THEN AuthResult(FALSE, 401, "Access denied", "User account is inactive", 0)
  ELSE AuthResult(TRUE, 0, "", "", tok.uid)

\* middleware/auth.js: the second copy of the middleware
authenticateTokenLegacy(tok, t, U) ==
  IF tok.sig = "none"
    THEN AuthResult(FALSE, 401, "Access denied", "Access token is missing", 0)
  ELSE IF jwtVerify(tok, t) = "JsonWebTokenError"
    THEN AuthResult(FALSE, 401, "Access denied", "Invalid token", 0)
  ELSE IF jwtVerify(tok, t) = "TokenExpiredError"
    THEN AuthResult(FALSE, 401, "Access denied", "Token expired", 0)
  ELSE IF tok.uid \notin UserIds(U)
    THEN AuthResult(FALSE, 404, "Access denied", "Invalid token - user not found", 0)
  ELSE AuthResult(TRUE, 0, "", "", tok.uid)

\* a guard that only asks for a user
requireAdminAnyRole(reqUser, U) ==
  IF reqUser = 0
    THEN AuthResult(FALSE, 401, "Access denied", "Authentication required", reqUser)
    ELSE AuthResult(TRUE, 0, "", "", reqUser)

\* a guard that answers a wrong role like a missing user
requireAdminAlways401(reqUser, U) ==
  IF reqUser = 0 \/ U[reqUser].role # "admin"
    THEN AuthResult(FALSE, 401, "Access denied", "Authentication required", reqUser)
    ELSE AuthResult(TRUE, 0, "", "", reqUser)

\* requireAdmin(req): reqUser = 0 is a request with no req.user.  The request is
\* handed on as it came: the guard assigns nothing.
requireAdmin(reqUser, U) ==
  IF reqUser = 0
    THEN AuthResult(FALSE, 401, "Access denied", "Authentication required", reqUser)
  ELSE IF U[reqUser].role # "admin"
    THEN AuthResult(FALSE, 403, "Access denied", "Admin role required", reqUser)
  ELSE AuthResult(TRUE, 0, "", "", reqUser)

----------------------------------------------------------------------------
(* Task schema *)

Task(owner, title, status, priority, dueDate, completedAt) ==
  [owner |-> owner, title |-> title, status |-> status, priority |-> priority,
   dueDate |-> dueDate, completedAt |-> completedAt, description |-> Undef,
   tags |-> "[]", live |-> TRUE]

NoTask == [Task(0, Undef, Undef, Undef, NoDate, NoDate) EXCEPT !.live = FALSE]

\* a constructor that takes the owner from the body when it has one
newTaskBodyOwner(b, owner) ==
  [Task(IF b.owner # 0 THEN b.owner ELSE owner, b.title,
        IF b.status = Undef THEN "pending" ELSE b.status,
        IF b.priority = Undef THEN "medium" ELSE b.priority,
        IF b.dueDate \in {AbsentDate, NoDate} THEN NoDate ELSE b.dueDate,
        NoDate)
     EXCEPT !.description = b.description,
            !.tags = IF b.tags = Undef THEN "[]" ELSE b.tags]

\* new Task({...}) of POST /api/tasks: the schema defaults fill what is undefined
newTask(b, owner) ==
  [Task(owner, b.title,
        IF b.status = Undef THEN "pending" ELSE b.status,
        IF b.priority = Undef THEN "medium" ELSE b.priority,
        IF b.dueDate \in {AbsentDate, NoDate} THEN NoDate ELSE b.dueDate,
        NoDate)
     EXCEPT !.description = b.description,
            !.tags = IF b.tags = Undef THEN "[]" ELSE b.tags]

\* assignments that also take completedAt from the body
assignFieldsAndCompletedAt(doc, b) ==
  [doc EXCEPT
    !.title = IF b.title # Undef THEN b.title ELSE @,
    !.description = IF b.description # Undef THEN b.description ELSE @,
    !.status = IF b.status # Undef THEN b.status ELSE @,
    !.priority = IF b.priority # Undef THEN b.priority ELSE @,
    !.dueDate = IF b.dueDate # AbsentDate THEN b.dueDate ELSE @,
    !.tags = IF b.tags # Undef THEN b.tags ELSE @,
    !.completedAt = IF b.completedAt # AbsentDate THEN b.completedAt ELSE @]

\* the assignments of PUT /api/tasks/:id
assignFields(doc, b) ==
  [doc EXCEPT
    !.title = IF b.title # Undef THEN b.title ELSE @,
    !.description = IF b.description # Undef THEN b.description ELSE @,
    !.status = IF b.status # Undef THEN b.status ELSE @,
    !.priority = IF b.priority # Undef THEN b.priority ELSE @,
    !.dueDate = IF b.dueDate # AbsentDate THEN b.dueDate ELSE @,
    !.tags = IF b.tags # Undef THEN b.tags ELSE @]

TaskPaths ==
  {"title", "description", "status", "priority", "dueDate", "tags", "completedAt"}

\* isModified: the paths whose value an assignment changed
modifiedPaths(old, doc) == {p \in TaskPaths : doc[p] # old[p]}

\* schema validation of the paths in `paths` (required paths are always checked)
validateTask(doc, paths, t) ==
  {p \in {"title"} : doc.title \in {Undef, ""}}
  \cup {p \in {"title"} \cap paths : doc.title # Undef /\ Len(doc.title) > 100}
  \cup {p \in {"status"} \cap paths : doc.status \notin Statuses}
  \cup {p \in {"priority"} \cap paths : doc.priority \notin Priorities}
  \cup {p \in {"dueDate"} \cap paths : doc.dueDate # NoDate /\ doc.dueDate < t}

\* a hook that stamps completedAt and never clears it
preSaveNeverClears(doc, statusModified, t) ==
  IF statusModified /\ doc.status = "completed" /\ doc.completedAt = NoDate
    THEN [doc EXCEPT !.completedAt = t]
    ELSE doc

\* taskSchema.pre("save")
preSave(doc, statusModified, t) ==
  IF statusModified
    THEN IF doc.status = "completed" /\ doc.completedAt = NoDate
           THEN [doc EXCEPT !.completedAt = t]
         ELSE IF doc.status # "completed"
           THEN [doc EXCEPT !.completedAt = NoDate]
         ELSE doc
    ELSE doc

\* a findOne that drops the owner filter
findOneAnyOwner(T, id, owner) ==
  IF id \in DOMAIN T /\ T[id].live THEN id ELSE 0

\* Task.findOne({_id, owner}): the id found, 0 for null
findOneOwned(T, id, owner) ==
  IF id \in DOMAIN T /\ T[id].live /\ T[id].owner = owner THEN id ELSE 0

\* Task.findById
findTaskById(T, id) == IF id \in DOMAIN T /\ T[id].live THEN id ELSE 0

\* an update that inserts the document when the filter matches none
writePathsUpsert(T, id, doc, paths) == [T EXCEPT ![id] = [doc EXCEPT !.live = TRUE]]

\* updateOne({_id}, {$set: the modified paths}): a filter that matches no document
\* writes nothing
writePaths(T, id, doc, paths) ==
  IF findTaskById(T, id) = 0
    THEN T
    ELSE [T EXCEPT ![id] =
      [@ EXCEPT !.title = IF "title" \in paths THEN doc.title ELSE @,
                !.description = IF "description" \in paths THEN doc.description ELSE @,
                !.tags = IF "tags" \in paths THEN doc.tags ELSE @,
                !.status = IF "status" \in paths THEN doc.status ELSE @,
                !.priority = IF "priority" \in paths THEN doc.priority ELSE @,
                !.dueDate = IF "dueDate" \in paths THEN doc.dueDate ELSE @,
                !.completedAt = IF "completedAt" \in paths THEN doc.completedAt ELSE @]]

\* a delete that removes nothing
deleteByIdKeeps(T, id) == T

\* Task.findByIdAndDelete
deleteById(T, id) ==
  IF id \in DOMAIN T THEN [T EXCEPT ![id] = NoTask] ELSE T

----------------------------------------------------------------------------
(* Requests in flight *)

\* a request inside its handler: where it stands, the request, req.user's id,
\* the document it loaded (or the results of the queries it has run so far) and
\* that document's modified paths
Pending(pc, req, uid, doc, mod) ==
  [pc |-> pc, req |-> req, uid |-> uid, doc |-> doc, mod |-> mod]

Idle == Pending("idle", NoReq, 0, NoTask, {})

\* the tokens a client can present: none, one the server signed, one it did not
Presentable == issued \cup {NoToken, ForgedToken}

Creating == {s \in Slots : slot[s].pc = "h1" /\ slot[s].req.route = "createTask"}

\* the handler is entered / the request is answered
Enter(s, req, uid) ==
  /\ slot' = [slot EXCEPT ![s] = Pending("h1", req, uid, NoTask, {})]
  /\ resp' = NoResp

Reply(s, r) ==
  /\ slot' = [slot EXCEPT ![s] = Idle]
  /\ resp' = r

\* at route r of a running handler
At(s, pc, route) == slot[s].pc = pc /\ slot[s].req.route = route

----------------------------------------------------------------------------
(* /api/tasks *)

TaskRoutes ==
  {"getTask", "createTask", "updateTask", "deleteTask", "listTasks", "summary"}

NotFound(req, uid, what) ==
  Respond(req, uid, 404, "Task not found",
          "Task not found or you do not have permission to " \o what \o " it")

\* router.use(authenticateToken): a request arrives, its token is verified and its
\* user loaded; the handler is entered with req.user set, or the request ends here.
TaskArrive(s, req) ==
  /\ slot[s].pc = "idle"
  /\ req.route \in TaskRoutes
  /\ req.tok \in Presentable
  /\ req.route = "createTask" => Len(tasks) + Cardinality(Creating) < MaxTasks
  /\ LET a == authenticateToken(req.tok, now, users) IN
       IF a.next
         THEN Enter(s, req, a.user)
         ELSE Reply(s, Respond(req, 0, a.status, a.error, a.message))
  /\ UNCHANGED <<users, tasks, now, issued>>

\* a handler that tells a foreign task from a missing one
getTaskResponseForbidden(T, req, uid) ==
  IF findTaskById(T, req.id) = 0
    THEN NotFound(req, uid, "view")
  ELSE IF T[req.id].owner # uid
    THEN Respond(req, uid, 403, "Forbidden", "You do not own this task")
  ELSE Ok(req, uid, 200, "", req.id)

\* GET /api/tasks/:id
getTaskResponse(T, req, uid) ==
  IF findOneOwned(T, req.id, uid) = 0
    THEN NotFound(req, uid, "view")
    ELSE Ok(req, uid, 200, "", req.id)

GetTask(s) ==
  /\ At(s, "h1", "getTask")
  /\ Reply(s, getTaskResponse(tasks, slot[s].req, slot[s].uid))
  /\ UNCHANGED <<users, tasks, now, issued>>

\* POST /api/tasks: new Task, validation, the pre-save hook, the insert
CreateTask(s) ==
  /\ At(s, "h1", "createTask")
  /\ LET r == slot[s]
         doc == newTask(r.req.body, r.uid)
         bad == validateTask(doc, TaskPaths, now)
         saved == preSave(doc, r.req.body.status # Undef, now)
     IN  IF bad # {}
           THEN /\ Reply(s, errorHandler(ValidationError(bad), r.req, r.uid))
                /\ UNCHANGED tasks
           ELSE /\ tasks' = Append(tasks, saved)
                /\ Reply(s, Ok(r.req, r.uid, 201, "Task created successfully",
                               Len(tasks) + 1))
  /\ UNCHANGED <<users, now, issued>>

\* PUT /api/tasks/:id, up to the write of task.save(): the findOne, the assignments,
\* the validation of the modified paths and the pre-save hook on the loaded copy
UpdateTaskFind(s) ==
  /\ At(s, "h1", "updateTask")
  /\ LET r == slot[s] IN
       IF findOneOwned(tasks, r.req.id, r.uid) = 0
         THEN Reply(s, NotFound(r.req, r.uid, "update"))
         ELSE LET old == tasks[r.req.id]
                  doc == assignFields(old, r.req.body)
                  mods == modifiedPaths(old, doc)
                  bad == validateTask(doc, mods, now)
                  saved == preSave(doc, "status" \in mods, now)
              IN  IF bad # {}
                    THEN Reply(s, errorHandler(ValidationError(bad), r.req, r.uid))
                    ELSE /\ slot' = [slot EXCEPT ![s] =
                                       Pending("h2", r.req, r.uid, saved,
                                               modifiedPaths(old, saved))]
                         /\ resp' = NoResp
  /\ UNCHANGED <<users, tasks, now, issued>>

\* the write of task.save(): the modified paths only; when the update matched no
\* document save() throws DocumentNotFoundError
UpdateTaskSave(s) ==
  /\ At(s, "h2", "updateTask")
  /\ LET r == slot[s] IN
       /\ tasks' = writePaths(tasks, r.req.id, r.doc, r.mod)
       /\ IF findTaskById(tasks, r.req.id) = 0
            THEN Reply(s, errorHandler(Err("DocumentNotFoundError", 0), r.req, r.uid))
            ELSE Reply(s, Ok(r.req, r.uid, 200, "Task updated successfully", r.req.id))
  /\ UNCHANGED <<users, now, issued>>

\* DELETE /api/tasks/:id: the scoped findOne
DeleteTaskFind(s) ==
  /\ At(s, "h1", "deleteTask")
  /\ LET r == slot[s] IN
       IF findOneOwned(tasks, r.req.id, r.uid) = 0
         THEN Reply(s, NotFound(r.req, r.uid, "delete"))
         ELSE /\ slot' = [slot EXCEPT ![s].pc = "h2"]
              /\ resp' = NoResp
  /\ UNCHANGED <<users, tasks, now, issued>>

\* DELETE /api/tasks/:id: Task.findByIdAndDelete(req.params.id)
DeleteTaskExec(s) ==
  /\ At(s, "h2", "deleteTask")
  /\ tasks' = deleteById(tasks, slot[s].req.id)
  /\ Reply(s, Ok(slot[s].req, slot[s].uid, 200, "Task deleted successfully", 0))
  /\ UNCHANGED <<users, now, issued>>

\* new Date() moves on
Tick ==
  /\ now + TickHours <= MaxTicks * TickHours
  /\ now' = now + TickHours
  /\ resp' = NoResp
  /\ UNCHANGED <<users, tasks, issued, slot>>

----------------------------------------------------------------------------
(* Initial state: a seeded admin, two registered users, a token each, and a     *)
(* token of an account that has since been removed from the collection.         *)

GoneUser == MaxUsers + 5

InitUsers ==
  << User("root", "root@x.com", Hash("rootpw1"), "admin", TRUE),
     User("alice", "a@x.com", Hash("secret1"), "user", TRUE),
     User("bob", "b@x.com", Hash("secret2"), "user", TRUE) >>

Init ==
  /\ users = InitUsers
  /\ tasks = << >>
  /\ now = 0
  /\ issued = {generateToken(u, 0) : u \in (DOMAIN InitUsers) \cup {GoneUser}}
  /\ slot = [s \in Slots |-> Idle]
  /\ resp = NoResp

----------------------------------------------------------------------------
(* Concurrent requests of two users on the task routes *)

RaceStatuses == {Undef, "in-progress", "completed"}

RaceRequests ==
  {Request(r, generateToken(u, 0), i, NoBody) :
     r \in {"getTask", "deleteTask"}, u \in {2, 3}, i \in 1..MaxTasks}
  \cup {Request("createTask", generateToken(u, 0), 0, Body("T", st, Undef, AbsentDate)) :
     u \in {2, 3}, st \in RaceStatuses}
  \cup {Request("updateTask", generateToken(u, 0), i, Body(Undef, st, Undef, AbsentDate)) :
     u \in {2, 3}, i \in 1..MaxTasks, st \in RaceStatuses}

TaskSteps(s) ==
  \/ GetTask(s)
  \/ CreateTask(s)
  \/ UpdateTaskFind(s)
  \/ UpdateTaskSave(s)
  \/ DeleteTaskFind(s)
  \/ DeleteTaskExec(s)

NextRace ==
  \/ \E s \in Slots : \E req \in RaceRequests : TaskArrive(s, req)
  \/ \E s \in Slots : TaskSteps(s)

SpecRace == Init /\ [][NextRace]_vars

----------------------------------------------------------------------------
(* Sequential requests: a request arrives when no other is in flight *)

AllIdle == \A s \in Slots : slot[s].pc = "idle"

SeqStatuses == Statuses \cup {Undef, "archived"}

SeqCallers == {generateToken(2, 0), generateToken(3, 0), NoToken}

SeqRequests ==
  {Request(r, k, i, NoBody) :
     r \in {"getTask", "deleteTask"}, k \in SeqCallers, i \in 1..MaxTasks}
  \cup {Request("createTask", k, 0, Body(ti, st, Undef, AbsentDate)) :
     k \in SeqCallers, ti \in {"T", Undef}, st \in SeqStatuses}
  \cup {Request("updateTask", k, i, Body(Undef, st, Undef, AbsentDate)) :
     k \in SeqCallers, i \in 1..MaxTasks, st \in SeqStatuses}

Next ==
  \/ \E req \in SeqRequests : AllIdle /\ TaskArrive(1, req)
  \/ TaskSteps(1)

Spec == Init /\ [][Next]_vars

----------------------------------------------------------------------------
(* /api/auth *)

\* the email pattern of the schema, on the emails of the model
EmailShaped(e) == e \in {"a@x.com", "b@x.com", "c@x.com", "root@x.com"}

\* a constructor that is given the whole body
newUserWholeBody(b) ==
  User(b.username, ToLower(b.email), b.password,
       IF b.role = Undef THEN "user" ELSE b.role,
       b.isActive # "false")

\* new User({username, email, password}): lowercase setter, schema defaults
newUser(b) == User(b.username, ToLower(b.email), b.password, "user", TRUE)

\* a schema that wants six characters of a username
validateUserLongName(doc) ==
  {p \in {"username"} : doc.username = Undef \/ Len(doc.username) < 6
                        \/ Len(doc.username) > 30}
  \cup {p \in {"email"} : doc.email = Undef \/ ~EmailShaped(doc.email)}
  \cup {p \in {"password"} : doc.password = Undef \/ Len(doc.password) < 6}

\* the validators of the user schema: the paths that fail
validateUser(doc) ==
  {p \in {"username"} : doc.username = Undef \/ Len(doc.username) < 3
                        \/ Len(doc.username) > 30}
  \cup {p \in {"email"} : doc.email = Undef \/ ~EmailShaped(doc.email)}
  \cup {p \in {"password"} : doc.password = Undef \/ Len(doc.password) < 6}

\* a hook that hashes the password on every save
preSaveUserAlways(doc, passwordModified) == [doc EXCEPT !.password = Hash(doc.password)]

\* userSchema.pre("save"): the password is hashed when it was modified
preSaveUser(doc, passwordModified) ==
  IF passwordModified THEN [doc EXCEPT !.password = Hash(doc.password)] ELSE doc

\* User.findOne({$or: [{email}, {username}]}): the filter is cast by the schema, so
\* the email is compared lowercased; every stored user that matches
registerMatches(U, b) ==
  {i \in DOMAIN U : U[i].email = ToLower(b.email) \/ U[i].username = b.username}

\* the message of the 400: the stored email against the email as it was sent
duplicateMessage(existingUser, b) ==
  IF existingUser.email = b.email
    THEN "Email already registered"
    ELSE "Username already taken"

\* the fields of the user object in the responses of register and login, of the
\* profile route and of the status route
authView == {"id", "username", "email", "role"}

profileView == authView \cup {"createdAt"}

statusView == authView \cup {"isActive"}

\* the unique indexes on email and username: the fields on which the insert of doc
\* collides with a stored user (the server reports one of them)
duplicateKeys(U, doc) ==
  {f \in {"email", "username"} : \E i \in DOMAIN U : U[i][f] = doc[f]}

\* a collection without unique indexes
violatesUniqueNever(U, doc) == FALSE

\* the unique indexes on email and username
violatesUnique(U, doc) ==
  \E i \in DOMAIN U : U[i].email = doc.email \/ U[i].username = doc.username

\* User.findByEmail: findOne({email: email.toLowerCase()}), 0 for null
findByEmail(U, email) ==
  IF \E i \in DOMAIN U : U[i].email = ToLower(email)
    THEN CHOOSE i \in DOMAIN U : U[i].email = ToLower(email)
    ELSE 0

Registering == {s \in Slots : slot[s].pc = "h2" /\ slot[s].req.route = "register"}

\* POST /api/auth/register, up to the insert: the existence check (findOne answers
\* with any one of the users that match), then new User and its validation
RegisterFind(s, req) ==
  /\ slot[s].pc = "idle"
  /\ req.route = "register"
  /\ LET found == registerMatches(users, req.body)
         doc == newUser(req.body)
     IN  IF found # {}
           THEN \E i \in found :
                  Reply(s, Respond(req, 0, 400, "User already exists",
                                   duplicateMessage(users[i], req.body)))
         ELSE IF validateUser(doc) # {}
           THEN Reply(s, errorHandler(ValidationError(validateUser(doc)), req, 0))
         ELSE /\ Len(users) + Cardinality(Registering) < MaxUsers
              /\ slot' = [slot EXCEPT ![s] = Pending("h2", req, 0, NoTask, {})]
              /\ resp' = NoResp
  /\ UNCHANGED <<users, tasks, now, issued>>

\* POST /api/auth/register: the insert of user.save(), the token, the 201
RegisterSave(s) ==
  /\ At(s, "h2", "register")
  /\ LET r == slot[s]
         doc == preSaveUser(newUser(r.req.body), TRUE)
         id == Len(users) + 1
     IN  IF violatesUnique(users, doc)
           THEN /\ \E f \in duplicateKeys(users, doc) :
                     Reply(s, errorHandler(DuplicateKeyError(f), r.req, 0))
                /\ UNCHANGED <<users, issued>>
           ELSE /\ users' = Append(users, doc)
                /\ issued' = issued \cup {generateToken(id, now)}
                /\ Reply(s, [Respond(r.req, id, 201, "", "User registered successfully")
                               EXCEPT !.token = generateToken(id, now),
                                      !.view = authView])
  /\ UNCHANGED <<tasks, now>>

\* POST /api/auth/login: the answer to a body, against the stored users U at time t
loginResponse(U, req, t) ==
  LET b == req.body
      u == IF b.email = Undef THEN 0 ELSE findByEmail(U, b.email)
  IN  IF b.email = Undef \/ b.password = Undef
        THEN Respond(req, 0, 400, "Missing credentials", "Email and password are required")
      ELSE IF u = 0
        THEN Respond(req, 0, 401, "Invalid credentials", "Invalid email or password")
      ELSE IF ~U[u].isActive
        THEN Respond(req, 0, 401, "Account inactive", "Your account has been deactivated")
      ELSE IF ~comparePassword(b.password, U[u].password)
        THEN Respond(req, 0, 401, "Invalid credentials", "Invalid email or password")
      ELSE [Respond(req, u, 200, "", "Login successful")
              EXCEPT !.token = generateToken(u, t), !.view = authView]

\* POST /api/auth/login
Login(s, req) ==
  /\ slot[s].pc = "idle"
  /\ req.route = "login"
  /\ LET r == loginResponse(users, req, now) IN
       /\ Reply(s, r)
       /\ issued' = IF r.token = NoToken THEN issued ELSE issued \cup {r.token}
  /\ UNCHANGED <<users, tasks, now>>

\* GET /api/auth/profile behind authenticateToken: the handler reads req.user only
Profile(s, req) ==
  /\ slot[s].pc = "idle"
  /\ req.route = "profile"
  /\ req.tok \in Presentable
  /\ LET a == authenticateToken(req.tok, now, users) IN
       IF a.next
         THEN Reply(s, [Respond(req, a.user, 200, "", "") EXCEPT !.view = profileView])
         ELSE Reply(s, Respond(req, 0, a.status, a.error, a.message))
  /\ UNCHANGED <<users, tasks, now, issued>>

----------------------------------------------------------------------------
(* /api/admin *)

AdminRoutes ==
  {"adminStatus", "adminDeleteTask", "adminListTasks", "adminListUsers", "adminStats"}

\* the same routes on the earlier copy of the router, which mounts the middleware
\* of middleware/auth.js
LegacyAdminRoutes == {"legacyAdminDeleteTask"}

AdminDeleteRoutes == {"adminDeleteTask", "legacyAdminDeleteTask"}

\* a check that lets every value of isActive through
isBooleanAny(v) == TRUE

\* typeof isActive === "boolean": "true" and "false" stand for the two booleans,
\* every other value for a body whose isActive is of another type or missing
isBoolean(v) == v \in {"true", "false"}

\* adminRoutes.use(authenticateToken); adminRoutes.use(requireAdmin); then the
\* handler up to its first store operation (the typeof check of the status route)
AdminArrive(s, req) ==
  /\ slot[s].pc = "idle"
  /\ req.route \in AdminRoutes
  /\ req.tok \in Presentable
  /\ LET a == authenticateToken(req.tok, now, users)
         g == requireAdmin(a.user, users)
     IN  IF ~a.next
           THEN Reply(s, Respond(req, 0, a.status, a.error, a.message))
         ELSE IF ~g.next
           THEN Reply(s, Respond(req, a.user, g.status, g.error, g.message))
         ELSE IF req.route = "adminStatus" /\ ~isBoolean(req.body.isActive)
           THEN Reply(s, Respond(req, a.user, 400, "Invalid input",
                                 "isActive must be a boolean value"))
         ELSE Enter(s, req, g.user)
  /\ UNCHANGED <<users, tasks, now, issued>>

\* router.use(authenticateToken); router.use(requireAdmin) of the earlier copy
LegacyAdminArrive(s, req) ==
  /\ slot[s].pc = "idle"
  /\ req.route \in LegacyAdminRoutes
  /\ req.tok \in Presentable
  /\ LET a == authenticateTokenLegacy(req.tok, now, users)
         g == requireAdmin(a.user, users)
     IN  IF ~a.next
           THEN Reply(s, Respond(req, 0, a.status, a.error, a.message))
         ELSE IF ~g.next
           THEN Reply(s, Respond(req, a.user, g.status, g.error, g.message))
         ELSE Enter(s, req, g.user)
  /\ UNCHANGED <<users, tasks, now, issued>>

\* a self check that never fires
isSelfNever(targetId, callerId) == FALSE

\* user._id.toString() === req.user._id.toString()
isSelf(targetId, callerId) == targetId = callerId

\* PUT /api/admin/users/:id/status: User.findById, the self check, the assignment
AdminStatusFind(s) ==
  /\ At(s, "h1", "adminStatus")
  /\ LET r == slot[s]
         value == (r.req.body.isActive = "true")
     IN  IF r.req.id \notin UserIds(users)
           THEN Reply(s, Respond(r.req, r.uid, 404, "User not found", "User not found"))
         ELSE IF isSelf(r.req.id, r.uid)
           THEN Reply(s, Respond(r.req, r.uid, 400, "Invalid operation",
                                 "You cannot deactivate your own account"))
         ELSE /\ slot' = [slot EXCEPT ![s].pc = "h2",
                                      ![s].mod = IF users[r.req.id].isActive = value
                                                   THEN {} ELSE {"isActive"}]
              /\ resp' = NoResp
  /\ UNCHANGED <<users, tasks, now, issued>>

\* PUT /api/admin/users/:id/status: user.save(), its pre-save hook and the write of
\* the paths that were modified
AdminStatusSave(s) ==
  /\ At(s, "h2", "adminStatus")
  /\ LET r == slot[s]
         value == (r.req.body.isActive = "true")
         saved == preSaveUser([users[r.req.id] EXCEPT !.isActive = value],
                              "password" \in r.mod)
     IN  /\ users' = [users EXCEPT ![r.req.id].isActive = saved.isActive,
                                   ![r.req.id].password = saved.password]
         /\ Reply(s, [Respond(r.req, r.uid, 200, "",
                              IF value THEN "User activated successfully"
                              ELSE "User deactivated successfully")
                        EXCEPT !.view = statusView])
  /\ UNCHANGED <<tasks, now, issued>>

\* DELETE /api/admin/tasks/:id: Task.findById
AdminDeleteFind(s) ==
  /\ slot[s].pc = "h1"
  /\ slot[s].req.route \in AdminDeleteRoutes
  /\ LET r == slot[s] IN
       IF findTaskById(tasks, r.req.id) = 0
         THEN Reply(s, Respond(r.req, r.uid, 404, "Task not found", "Task not found"))
         ELSE /\ slot' = [slot EXCEPT ![s].pc = "h2"]
              /\ resp' = NoResp
  /\ UNCHANGED <<users, tasks, now, issued>>

\* DELETE /api/admin/tasks/:id: Task.findByIdAndDelete
AdminDeleteExec(s) ==
  /\ slot[s].pc = "h2"
  /\ slot[s].req.route \in AdminDeleteRoutes
  /\ tasks' = deleteById(tasks, slot[s].req.id)
  /\ Reply(s, Ok(slot[s].req, slot[s].uid, 200, "Task deleted successfully", 0))
  /\ UNCHANGED <<users, now, issued>>

----------------------------------------------------------------------------
(* Accounts, tokens and the admin routes, one request at a time, with the clock *)

InitAuth ==
  /\ users = InitUsers
  /\ tasks = << Task(2, "T", "pending", "medium", NoDate, NoDate) >>
  /\ now = 0
  /\ issued = {generateToken(u, 0) : u \in (DOMAIN InitUsers) \cup {GoneUser}}
  /\ slot = [s \in Slots |-> Idle]
  /\ resp = NoResp

RegisterRequests ==
  {Request("register", NoToken, 0, UserBody(un, em, "secret3")) :
     un \in {"alice", "carol", "al"}, em \in {"a@x.com", "A@X.COM", "c@x.com", "C@X.COM"}}

LoginRequests ==
  {Request("login", NoToken, 0, UserBody(Undef, em, pw)) :
     em \in {"A@X.COM", "nobody@x.com", Undef}, pw \in {"secret1", "wrong99"}}

\* the callers of the admin routes: the admin, a user, nobody; the targets of the
\* status route: the admin, a user, the id the next registration takes or took
AdminCallers == {generateToken(1, 0), generateToken(2, 0), NoToken}

StatusTargets == {1, 2, MaxUsers}

AdminRequests ==
  {Request("adminStatus", k, i, StatusBody(v)) :
     k \in AdminCallers, i \in StatusTargets, v \in {"true", "false", "yes"}}
  \cup {Request("adminDeleteTask", k, i, NoBody) : k \in AdminCallers, i \in 1..MaxTasks}

LegacyAdminRequests ==
  {Request("legacyAdminDeleteTask", k, i, NoBody) :
     k \in AdminCallers \cup {generateToken(GoneUser, 0)}, i \in 1..MaxTasks}

ProfileRequests == {Request("profile", k, 0, NoBody) : k \in Presentable}

NextAuth ==
  \/ \E req \in AdminRequests : AllIdle /\ AdminArrive(1, req)
  \/ \E req \in LegacyAdminRequests : AllIdle /\ LegacyAdminArrive(1, req)
  \/ AdminStatusFind(1)
  \/ AdminStatusSave(1)
  \/ AdminDeleteFind(1)
  \/ AdminDeleteExec(1)
  \/ \E req \in RegisterRequests : AllIdle /\ RegisterFind(1, req)
  \/ RegisterSave(1)
  \/ \E req \in LoginRequests : AllIdle /\ Login(1, req)
  \/ \E req \in ProfileRequests : AllIdle /\ Profile(1, req)
  \/ Tick

SpecAuth == InitAuth /\ [][NextAuth]_vars

----------------------------------------------------------------------------
(* Lists: GET /api/tasks, GET /api/admin/tasks, GET /api/admin/users *)

ListRoutes == {"listTasks", "adminListTasks", "adminListUsers"}

\* parseInt, on the query strings of the model
parseInt(v) ==
  CASE v = "0" -> 0
    [] v = "1" -> 1
    [] v = "2" -> 2
    [] v = "3" -> 3

\* const { page = 1, limit = 10 } = req.query; parseInt(page); parseInt(limit)
pageNum(q) == IF q.page = Undef THEN 1 ELSE parseInt(q.page)

limitNum(q) == IF q.limit = Undef THEN 10 ELSE parseInt(q.limit)

skipOf(q) == (pageNum(q) - 1) * limitNum(q)

\* the query object: the owner (0: any), and the status and priority filters
\* when the query string carries a non-empty one
matchesTask(doc, owner, q) ==
  /\ doc.live
  /\ owner = 0 \/ doc.owner = owner
  /\ q.status \in {Undef, ""} \/ doc.status = q.status
  /\ q.priority \in {Undef, ""} \/ doc.priority = q.priority

matchesUser(doc, q) == q.role \in {Undef, ""} \/ doc.role = q.role

\* .sort({createdAt: -1}): documents are created one after another, so the
\* latest id comes first
RECURSIVE sortDesc(_)
sortDesc(S) ==
  IF S = {} THEN << >>
  ELSE LET m == CHOOSE x \in S : \A y \in S : y <= x
       IN  <<m>> \o sortDesc(S \ {m})

\* .skip(skip).limit(limit): limit 0 is no limit
skipLimit(seq, skip, limit) ==
  IF skip >= Len(seq) THEN << >>
  ELSE SubSeq(seq, skip + 1,
              IF limit = 0 \/ skip + limit > Len(seq) THEN Len(seq) ELSE skip + limit)

\* Math.ceil(total / limit)
ceilDiv(total, limit) ==
  IF limit = 0
    THEN IF total = 0 THEN NaN ELSE Infinity
    ELSE Num((total + limit - 1) \div limit)

\* the pagination object of the response
paginationOf(q, total) ==
  [page |-> pageNum(q), limit |-> limitNum(q), total |-> total,
   pages |-> ceilDiv(total, limitNum(q))]

\* the owner scope of a task list: the caller, or none on the admin route
listOwner(r) == IF r.req.route = "listTasks" THEN r.uid ELSE 0

\* the ids a list query matches
listMatches(r) ==
  IF r.req.route = "adminListUsers"
    THEN {i \in DOMAIN users : matchesUser(users[i], r.req.body)}
    ELSE {i \in DOMAIN tasks : matchesTask(tasks[i], listOwner(r), r.req.body)}

\* the fields of the user objects a list carries: .select("-password") on the
\* user list, .populate("owner", "username email") on the admin task list
UserPaths == {"_id", "username", "email", "password", "role", "isActive"}

listView(route) ==
  CASE route = "adminListUsers" -> UserPaths \ {"password"}
    [] route = "adminListTasks" -> {"_id", "username", "email"}
    [] OTHER -> {}

\* the find of a list handler: a negative skip is refused by the server and the
\* error handler answers 500
ListFind(s) ==
  /\ slot[s].pc = "h1"
  /\ slot[s].req.route \in ListRoutes
  /\ LET r == slot[s]
         q == r.req.body
     IN  IF skipOf(q) < 0
           THEN Reply(s, errorHandler(Err("MongoServerError", 0), r.req, r.uid))
           ELSE /\ slot' = [slot EXCEPT ![s].pc = "h2",
                              ![s].doc = [items |-> skipLimit(sortDesc(listMatches(r)),
                                                              skipOf(q), limitNum(q))]]
                /\ resp' = NoResp
  /\ UNCHANGED <<users, tasks, now, issued>>

\* the countDocuments of a list handler, and the response
ListCount(s) ==
  /\ slot[s].pc = "h2"
  /\ slot[s].req.route \in ListRoutes
  /\ LET r == slot[s] IN
       Reply(s, [Ok(r.req, r.uid, 200, "", 0) EXCEPT
                   !.items = r.doc.items,
                   !.view = listView(r.req.route),
                   !.pagination = paginationOf(r.req.body, Cardinality(listMatches(r)))])
  /\ UNCHANGED <<users, tasks, now, issued>>

----------------------------------------------------------------------------
(* Statistics: GET /api/tasks/stats/summary, GET /api/admin/stats *)

StatsRoutes == {"summary", "adminStats"}

\* the live tasks in the scope of a stats query: the caller's, or all of them
inScope(T, owner) == {i \in DOMAIN T : T[i].live /\ (owner = 0 \/ T[i].owner = owner)}

\* Task.countDocuments({owner}) / Task.countDocuments()
countScope(T, owner) == Cardinality(inScope(T, owner))

\* Task.aggregate([{$match}, {$group: {_id: "$field", count: {$sum: 1}}}]) reduced
\* to an object: one key for each value that occurs, with its count
groupCount(T, owner, field) ==
  [v \in {T[i][field] : i \in inScope(T, owner)} |->
     Cardinality({i \in inScope(T, owner) : T[i][field] = v})]

\* an overdue count that leaves cancelled tasks out as well
countOverdueOpenOnly(T, owner, t) ==
  Cardinality({i \in inScope(T, owner) :
                 T[i].dueDate # NoDate /\ T[i].dueDate < t
                 /\ T[i].status \notin {"completed", "cancelled"}})

\* Task.countDocuments({owner, dueDate: {$lt: new Date()}, status: {$ne: "completed"}})
countOverdue(T, owner, t) ==
  Cardinality({i \in inScope(T, owner) :
                 T[i].dueDate # NoDate /\ T[i].dueDate < t /\ T[i].status # "completed"})

\* summary: the aggregate by status
SummaryAggregate(s) ==
  /\ At(s, "h1", "summary")
  /\ slot' = [slot EXCEPT ![s].pc = "h2",
                ![s].doc = [NoStats EXCEPT
                              !.byStatus = groupCount(tasks, slot[s].uid, "status")]]
  /\ resp' = NoResp
  /\ UNCHANGED <<users, tasks, now, issued>>

\* summary: the count of the caller's tasks
SummaryCount(s) ==
  /\ At(s, "h2", "summary")
  /\ slot' = [slot EXCEPT ![s].pc = "h3",
                ![s].doc = [@ EXCEPT !.total = countScope(tasks, slot[s].uid)]]
  /\ resp' = NoResp
  /\ UNCHANGED <<users, tasks, now, issued>>

\* summary: the count of overdue tasks, and the response
SummaryOverdue(s) ==
  /\ At(s, "h3", "summary")
  /\ LET r == slot[s] IN
       Reply(s, [Ok(r.req, r.uid, 200, "", 0) EXCEPT
                   !.stats = [r.doc EXCEPT !.overdue = countOverdue(tasks, r.uid, now)]])
  /\ UNCHANGED <<users, tasks, now, issued>>

\* admin stats: the counts (of them the response's tasks.total is kept)
AdminStatsCount(s) ==
  /\ At(s, "h1", "adminStats")
  /\ slot' = [slot EXCEPT ![s].pc = "h2",
                ![s].doc = [NoStats EXCEPT !.total = countScope(tasks, 0),
                                           !.overdue = countOverdue(tasks, 0, now)]]
  /\ resp' = NoResp
  /\ UNCHANGED <<users, tasks, now, issued>>

\* admin stats: the aggregate by status
AdminStatsByStatus(s) ==
  /\ At(s, "h2", "adminStats")
  /\ slot' = [slot EXCEPT ![s].pc = "h3",
                ![s].doc = [@ EXCEPT !.byStatus = groupCount(tasks, 0, "status")]]
  /\ resp' = NoResp
  /\ UNCHANGED <<users, tasks, now, issued>>

\* admin stats: the aggregate by priority, and the response
AdminStatsByPriority(s) ==
  /\ At(s, "h3", "adminStats")
  /\ LET r == slot[s] IN
       Reply(s, [Ok(r.req, r.uid, 200, "", 0) EXCEPT
                   !.stats = [r.doc EXCEPT
                                !.byPriority = groupCount(tasks, 0, "priority")]])
  /\ UNCHANGED <<users, tasks, now, issued>>

----------------------------------------------------------------------------
(* Lists, statistics and deletes, one request at a time *)

\* req.query of a list request
Query(page, limit, status, priority, role) ==
  [NoBody EXCEPT !.page = page, !.limit = limit, !.status = status,
                 !.priority = priority, !.role = role]

ListCallers == {generateToken(2, 0), generateToken(3, 0)}

PageParams == {Undef, "1", "2", "0"}

LimitParams == {Undef, "1", "2", "0"}

ListRequests ==
  {Request("createTask", k, 0, Body("T", st, Undef, AbsentDate)) :
     k \in ListCallers, st \in {Undef, "completed"}}
  \cup {Request(r, k, i, NoBody) :
     r \in {"getTask", "deleteTask"}, k \in ListCallers, i \in 1..MaxTasks}
  \cup {Request("listTasks", k, 0, Query(p, l, st, Undef, Undef)) :
     k \in ListCallers, p \in PageParams, l \in LimitParams, st \in {Undef, "completed"}}
  \cup {Request("summary", k, 0, NoBody) : k \in ListCallers}

AdminListRequests ==
  {Request("adminDeleteTask", generateToken(1, 0), i, NoBody) : i \in 1..MaxTasks}
  \cup {Request("adminListTasks", generateToken(1, 0), 0, Query(p, l, Undef, pr, Undef)) :
     p \in {Undef, "2"}, l \in {"1", "0"}, pr \in {Undef, "medium"}}
  \cup {Request("adminListUsers", generateToken(1, 0), 0, Query(p, l, Undef, Undef, ro)) :
     p \in {Undef, "2"}, l \in {Undef, "2", "0"}, ro \in {Undef, "user"}}
  \cup {Request("adminStats", generateToken(1, 0), 0, NoBody)}

ListSteps(s) ==
  \/ ListFind(s)
  \/ ListCount(s)
  \/ SummaryAggregate(s)
  \/ SummaryCount(s)
  \/ SummaryOverdue(s)
  \/ AdminStatsCount(s)
  \/ AdminStatsByStatus(s)
  \/ AdminStatsByPriority(s)

NextList ==
  \/ \E req \in ListRequests : AllIdle /\ TaskArrive(1, req)
  \/ \E req \in AdminListRequests : AllIdle /\ AdminArrive(1, req)
  \/ GetTask(1)
  \/ CreateTask(1)
  \/ DeleteTaskFind(1)
  \/ DeleteTaskExec(1)
  \/ AdminDeleteFind(1)
  \/ AdminDeleteExec(1)
  \/ ListSteps(1)

SpecList == Init /\ [][NextList]_vars

----------------------------------------------------------------------------
(* A statistics request while another request creates or deletes tasks *)

StatsRequests == {Request("summary", generateToken(2, 0), 0, NoBody)}

AdminStatsRequests == {Request("adminStats", generateToken(1, 0), 0, NoBody)}

WriterRequests ==
  {Request("createTask", generateToken(2, 0), 0, Body("T", st, Undef, AbsentDate)) :
     st \in {Undef, "completed"}}
  \cup {Request("deleteTask", generateToken(2, 0), i, NoBody) : i \in 1..MaxTasks}

NextStats ==
  \/ \E req \in StatsRequests : TaskArrive(1, req)
  \/ \E req \in AdminStatsRequests : AdminArrive(1, req)
  \/ SummaryAggregate(1)
  \/ SummaryCount(1)
  \/ SummaryOverdue(1)
  \/ AdminStatsCount(1)
  \/ AdminStatsByStatus(1)
  \/ AdminStatsByPriority(1)
  \/ \E req \in WriterRequests : TaskArrive(2, req)
  \/ CreateTask(2)
  \/ DeleteTaskFind(2)
  \/ DeleteTaskExec(2)

SpecStats == Init /\ [][NextStats]_vars

----------------------------------------------------------------------------
(* POST /api/tasks one at a time: bodies with and without a title, a status, a   *)
(* priority, and an owner and a completedAt of the client's                      *)

FullBody(title, description, status, priority, dueDate, tags, owner, completedAt) ==
  [Body(title, status, priority, dueDate) EXCEPT
     !.description = description, !.tags = tags,
     !.owner = owner, !.completedAt = completedAt]

\* what a client may add to a body that the handlers do not read
Extras ==
  {[owner |-> 0, completedAt |-> AbsentDate], [owner |-> 3, completedAt |-> TickHours]}

CreateRequests ==
  {Request("createTask", k, 0,
           FullBody(ti, Undef, st, pr, AbsentDate, Undef, ex.owner, ex.completedAt)) :
     k \in SeqCallers, ti \in {"T", Undef}, st \in {Undef, "completed", "archived"},
     pr \in {Undef, "high"}, ex \in Extras}

NextCreate ==
  \/ \E req \in CreateRequests : AllIdle /\ TaskArrive(1, req)
  \/ CreateTask(1)

SpecCreate == Init /\ [][NextCreate]_vars

----------------------------------------------------------------------------
(* PUT /api/tasks/:id one at a time: bodies that carry every subset of the       *)
(* fields, with or without an owner and a completedAt of the client's            *)

\* a due date ahead of every clock value
DueSoon == (MaxTicks + 1) * TickHours

FieldCreateRequests ==
  {Request("createTask", generateToken(2, 0), 0, Body("T", Undef, Undef, AbsentDate))}

FieldUpdateRequests ==
  {Request("updateTask", generateToken(2, 0), 1,
           FullBody(ti, de, st, pr, du, tg, ex.owner, ex.completedAt)) :
     ti \in {Undef, "U"}, de \in {Undef, "d"}, st \in {Undef, "completed", "pending"},
     pr \in {Undef, "low"}, du \in {AbsentDate, DueSoon},
     tg \in {Undef, "[x]"}, ex \in Extras}

FieldDeleteRequests ==
  {Request("deleteTask", generateToken(2, 0), i, NoBody) : i \in 1..MaxTasks}

NextFields ==
  \/ \E req \in FieldCreateRequests \cup FieldUpdateRequests \cup FieldDeleteRequests :
       AllIdle /\ TaskArrive(1, req)
  \/ CreateTask(1)
  \/ UpdateTaskFind(1)
  \/ UpdateTaskSave(1)
  \/ DeleteTaskFind(1)
  \/ DeleteTaskExec(1)

SpecFields == Init /\ [][NextFields]_vars

----------------------------------------------------------------------------
(* Accounts, one request at a time: logins with every combination of a          *)
(* registered, a newly registered, an unknown and a missing email with a right, *)
(* a wrong and a missing password, against accounts that the admin switches off *)
(* and on; the profile and the admin's lists                                    *)

LoginRegisterRequests ==
  {Request("register", NoToken, 0, UserBody("carol", em, "secret3")) :
     em \in {"c@x.com", "C@X.COM"}}

LoginAllRequests ==
  {Request("login", NoToken, 0, UserBody(Undef, em, pw)) :
     em \in {"A@X.COM", "c@x.com", "nobody@x.com", Undef},
     pw \in {"secret1", "secret3", "wrong99", Undef}}

LoginStatusRequests ==
  {Request("adminStatus", generateToken(1, 0), i, StatusBody(v)) :
     i \in {2, Len(InitUsers) + 1}, v \in {"true", "false"}}

LoginProfileRequests ==
  {Request("profile", generateToken(u, 0), 0, NoBody) : u \in {2, Len(InitUsers) + 1}}

LoginListRequests ==
  {Request(r, generateToken(1, 0), 0, NoBody) : r \in {"adminListUsers", "adminListTasks"}}

NextLogin ==
  \/ \E req \in LoginRegisterRequests : AllIdle /\ RegisterFind(1, req)
  \/ RegisterSave(1)
  \/ \E req \in LoginAllRequests : AllIdle /\ Login(1, req)
  \/ \E req \in LoginProfileRequests : AllIdle /\ Profile(1, req)
  \/ \E req \in LoginStatusRequests \cup LoginListRequests : AllIdle /\ AdminArrive(1, req)
  \/ AdminStatusFind(1)
  \/ AdminStatusSave(1)
  \/ ListFind(1)
  \/ ListCount(1)

SpecLogin == InitAuth /\ [][NextLogin]_vars

----------------------------------------------------------------------------
(* A fresh deployment: no user, no task; one client registers and works with    *)
(* the token of the registration                                                 *)

InitScenario ==
  /\ users = << >>
  /\ tasks = << >>
  /\ now = 0
  /\ issued = {}
  /\ slot = [s \in Slots |-> Idle]
  /\ resp = NoResp

\* the tokens a registration of the first user can return
ScenarioTokens == {generateToken(1, t * TickHours) : t \in 0..MaxTicks}

ScenarioRegisterRequests ==
  {Request("register", NoToken, 0, UserBody(un, "a@x.com", "secret1")) :
     un \in {"al", "alice"}}

ScenarioTaskRequests ==
  {Request("createTask", k, 0, Body("T", Undef, Undef, AbsentDate)) : k \in ScenarioTokens}
  \cup {Request("updateTask", k, i, Body(Undef, st, Undef, AbsentDate)) :
          k \in ScenarioTokens, i \in 1..MaxTasks, st \in {"completed", "pending"}}
  \cup {Request("summary", k, 0, NoBody) : k \in ScenarioTokens}

NextScenario ==
  \/ \E req \in ScenarioRegisterRequests : AllIdle /\ RegisterFind(1, req)
  \/ RegisterSave(1)
  \/ \E req \in ScenarioTaskRequests : AllIdle /\ TaskArrive(1, req)
  \/ CreateTask(1)
  \/ UpdateTaskFind(1)
  \/ UpdateTaskSave(1)
  \/ SummaryAggregate(1)
  \/ SummaryCount(1)
  \/ SummaryOverdue(1)
  \/ Tick

SpecScenario == InitScenario /\ [][NextScenario]_vars

----------------------------------------------------------------------------
(* Two registrations in flight: the existence check of each may run before the  *)
(* insert of the other                                                           *)

RaceRegisterRequests ==
  {Request("register", NoToken, 0, UserBody(un, em, "secret1")) :
     un \in {"alice", "carol"}, em \in {"a@x.com", "A@X.COM", "c@x.com"}}

NextRegisterRace ==
  \/ \E s \in Slots : \E req \in RaceRegisterRequests : RegisterFind(s, req)
  \/ \E s \in Slots : RegisterSave(s)

SpecRegisterRace == InitScenario /\ [][NextRegisterRace]_vars

----------------------------------------------------------------------------
(* Two admins, each with a status request in flight                              *)

TwoAdmins ==
  << User("root", "root@x.com", Hash("rootpw1"), "admin", TRUE),
     User("root2", "root2@x.com", Hash("rootpw2"), "admin", TRUE),
     User("alice", "a@x.com", Hash("secret1"), "user", TRUE) >>

InitAdminRace ==
  /\ users = TwoAdmins
  /\ tasks = << >>
  /\ now = 0
  /\ issued = {generateToken(u, 0) : u \in DOMAIN TwoAdmins}
  /\ slot = [s \in Slots |-> Idle]
  /\ resp = NoResp

AdminRaceRequests ==
  {Request("adminStatus", generateToken(k, 0), i, StatusBody(v)) :
     k \in {1, 2}, i \in DOMAIN TwoAdmins, v \in {"true", "false"}}

NextAdminRace ==
  \/ \E s \in Slots : \E req \in AdminRaceRequests : AdminArrive(s, req)
  \/ \E s \in Slots : AdminStatusFind(s)
  \/ \E s \in Slots : AdminStatusSave(s)

SpecAdminRace == InitAdminRace /\ [][NextAdminRace]_vars

----------------------------------------------------------------------------
(* Registrations whose body carries a role and an isActive, among status        *)
(* changes, one request at a time                                                *)

RoleRegisterRequests ==
  {Request("register", NoToken, 0,
           [UserBody(un, em, "secret3") EXCEPT !.role = ro, !.isActive = ac]) :
     un \in {"carol", "dave"}, em \in {"c@x.com", "d@x.com"},
     ro \in {Undef, "admin", "user"}, ac \in {Undef, "false"}}

RoleStatusRequests ==
  {Request("adminStatus", generateToken(k, 0), i, StatusBody(v)) :
     k \in {1, 2}, i \in 1..MaxUsers, v \in {"true", "false"}}

NextRoles ==
  \/ \E req \in RoleRegisterRequests : AllIdle /\ RegisterFind(1, req)
  \/ RegisterSave(1)
  \/ \E req \in RoleStatusRequests : AllIdle /\ AdminArrive(1, req)
  \/ AdminStatusFind(1)
  \/ AdminStatusSave(1)

SpecRoles == InitAuth /\ [][NextRoles]_vars

----------------------------------------------------------------------------
(* A PUT in flight on slot 1 while slot 2 creates and deletes: the PUT may read  *)
(* the task before a delete and save after it                                    *)

DeleteRaceUpdates ==
  {Request("updateTask", generateToken(2, 0), i, Body(ti, st, Undef, AbsentDate)) :
     i \in 1..MaxTasks, ti \in {Undef, "U"}, st \in {Undef, "completed"}}

DeleteRaceWrites ==
  {Request("createTask", generateToken(2, 0), 0, Body("T", Undef, Undef, AbsentDate))}
  \cup {Request("deleteTask", generateToken(2, 0), i, NoBody) : i \in 1..MaxTasks}

DeleteRaceAdminWrites ==
  {Request("adminDeleteTask", generateToken(1, 0), i, NoBody) : i \in 1..MaxTasks}

NextDeleteRace ==
  \/ \E req \in DeleteRaceUpdates : TaskArrive(1, req)
  \/ UpdateTaskFind(1)
  \/ UpdateTaskSave(1)
  \/ \E req \in DeleteRaceWrites : TaskArrive(2, req)
  \/ \E req \in DeleteRaceAdminWrites : AdminArrive(2, req)
  \/ CreateTask(2)
  \/ DeleteTaskFind(2)
  \/ DeleteTaskExec(2)
  \/ AdminDeleteFind(2)
  \/ AdminDeleteExec(2)

SpecDeleteRace == Init /\ [][NextDeleteRace]_vars

----------------------------------------------------------------------------
(* Statistics over tasks with due dates, one request at a time, as the clock     *)
(* moves past the due dates                                                      *)

\* a due date at the start of the run, and one a tick later
OverdueDates == {AbsentDate, 0, TickHours}

OverdueCreates ==
  {Request("createTask", generateToken(2, 0), 0, Body("T", st, Undef, du)) :
     st \in {Undef, "in-progress", "completed", "cancelled"}, du \in OverdueDates}
  \cup {Request("createTask", generateToken(3, 0), 0, Body("T", Undef, Undef, 0))}

OverdueStats ==
  {Request("summary", generateToken(k, 0), 0, NoBody) : k \in {2, 3}}

NextOverdue ==
  \/ \E req \in OverdueCreates : AllIdle /\ TaskArrive(1, req)
  \/ \E req \in OverdueStats : AllIdle /\ TaskArrive(1, req)
  \/ \E req \in AdminStatsRequests : AllIdle /\ AdminArrive(1, req)
  \/ CreateTask(1)
  \/ SummaryAggregate(1)
  \/ SummaryCount(1)
  \/ SummaryOverdue(1)
  \/ AdminStatsCount(1)
  \/ AdminStatsByStatus(1)
  \/ AdminStatsByPriority(1)
  \/ AllIdle /\ Tick

SpecOverdue == Init /\ [][NextOverdue]_vars

----------------------------------------------------------------------------
(* Failures on their way to the error handler: next(err) from express.json() and *)
(* from asyncHandler's catch                                                     *)

\* the error of a malformed id in a query
CastError(path) == [Err("CastError", 0) EXCEPT !.path = path]

\* an error with a statusCode of its own (body-parser's, http-errors')
HttpError(name, statusCode, message) ==
  [Err(name, 0) EXCEPT !.statusCode = statusCode, !.message = message]

\* express.json() on a body that is not JSON, and on one over its size limit
BodyErrors ==
  {HttpError("SyntaxError", 400, "Unexpected end of JSON input"),
   HttpError("PayloadTooLargeError", 413, "request entity too large")}

\* what a handler's promise can reject with
HandlerErrors ==
  {ValidationError(P) : P \in (SUBSET {"title", "status", "dueDate"}) \ {{}}}
  \cup {DuplicateKeyError(f) : f \in {"email", "username"}}
  \cup {CastError("_id")}
  \cup {Err(n, 0) : n \in {"JsonWebTokenError", "TokenExpiredError",
                           "MongoNetworkError", "DocumentNotFoundError", "Error"}}

ErrorRequests ==
  {Request("createTask", generateToken(2, 0), 0, Body(ti, Undef, Undef, AbsentDate)) :
     ti \in {Undef, "T"}}
  \cup {Request("getTask", generateToken(2, 0), i, NoBody) : i \in 1..MaxTasks}

\* express.json() calls next(err): no route runs
BodyRejected(s, req, e) ==
  /\ slot[s].pc = "idle"
  /\ slot' = [slot EXCEPT ![s] = Pending("error", req, 0, e, {})]
  /\ resp' = NoResp
  /\ UNCHANGED <<users, tasks, now, issued>>

\* asyncHandler: Promise.resolve(fn(req, res, next)).catch(next)
asyncHandlerCatch(s, e) ==
  /\ slot[s].pc = "h1"
  /\ slot' = [slot EXCEPT ![s].pc = "error", ![s].doc = e]
  /\ resp' = NoResp
  /\ UNCHANGED <<users, tasks, now, issued>>

\* app.use(errorHandler)
HandleError(s) ==
  /\ slot[s].pc = "error"
  /\ Reply(s, errorHandler(slot[s].doc, slot[s].req, slot[s].uid))
  /\ UNCHANGED <<users, tasks, now, issued>>

NextErrors ==
  \/ \E req \in ErrorRequests : AllIdle /\ TaskArrive(1, req)
  \/ GetTask(1)
  \/ CreateTask(1)
  \/ \E req \in ErrorRequests, e \in BodyErrors : AllIdle /\ BodyRejected(1, req, e)
  \/ \E e \in HandlerErrors : asyncHandlerCatch(1, e)
  \/ HandleError(1)

SpecErrors == Init /\ [][NextErrors]_vars

----------------------------------------------------------------------------
(* Claims *)

\* what the client reads of a response: status and body
ResponseBody(r) == <<r.status, r.error, r.message, r.task>>

\* a step of the handler of the request in slot s
Acted(s) == slot[s].pc # "idle" /\ slot'[s] # slot[s]

ForeignTask(id, uid) ==
  /\ findTaskById(tasks, id) # 0
  /\ tasks[id].owner # uid

\* C1: GET /api/tasks/:id by a non-admin caller for a task that exists and belongs to
\* someone else answers 404 with the status and body of a request for an id that
\* matches no task; it is never 403 and never carries the task.
C1_ForeignTaskLooksAbsent ==
  [][\A s \in Slots :
       (Acted(s) /\ slot[s].req.route = "getTask"
        /\ ForeignTask(slot[s].req.id, slot[s].uid))
       => /\ resp'.status = 404
          /\ resp'.task = 0
          /\ ResponseBody(resp') =
               ResponseBody(getTaskResponse(
                 tasks, [slot[s].req EXCEPT !.id = Len(tasks) + 1], slot[s].uid))]_vars

C1_Witness ==
  /\ resp.req.route = "getTask"
  /\ resp.status = 404
  /\ resp.uid # 0
  /\ ForeignTask(resp.req.id, resp.uid)

\* C2: PUT and DELETE /api/tasks/:id by a caller who does not own the task answer 404
\* and change nothing, and no step of a request of user U on the task routes changes
\* a task owned by another user.
C2_OthersTasksUntouched ==
  [][\A s \in Slots :
       (Acted(s) /\ slot[s].req.route \in TaskRoutes)
       => /\ \A i \in DOMAIN tasks :
               tasks[i].owner # slot[s].uid => tasks'[i] = tasks[i]
          /\ (slot[s].req.route \in {"updateTask", "deleteTask"}
              /\ slot[s].pc = "h1" /\ ForeignTask(slot[s].req.id, slot[s].uid))
             => (resp'.status = 404 /\ tasks' = tasks /\ slot'[s].pc = "idle")]_vars

C2_Witness ==
  /\ resp.req.route \in {"updateTask", "deleteTask"}
  /\ resp.status = 404
  /\ ForeignTask(resp.req.id, resp.uid)
  /\ \E i \in DOMAIN tasks : tasks[i].live /\ tasks[i].owner = resp.uid

\* C7: with sequential requests, POST /api/tasks with status "completed" stores a
\* completedAt; a PUT that sets another status clears it; a PUT from one
\* non-completed status to another leaves it unset; a PUT without status leaves
\* completedAt as it was.
C7_CompletedAtFollowsStatus ==
  [][\A s \in Slots :
       /\ (Acted(s) /\ slot[s].req.route = "createTask"
           /\ slot[s].req.body.status = "completed" /\ resp'.status = 201)
          => tasks'[Len(tasks')].completedAt # NoDate
       /\ (Acted(s) /\ slot[s].req.route = "updateTask" /\ slot[s].pc = "h2"
           /\ resp'.status = 200)
          => /\ slot[s].req.body.status \in Statuses \ {"completed"}
                => tasks'[slot[s].req.id].completedAt = NoDate
             /\ slot[s].req.body.status = Undef
                => tasks'[slot[s].req.id].completedAt
                     = tasks[slot[s].req.id].completedAt]_vars

\* a PUT that leaves "completed" is about to write: the hook has cleared the copy
C7_Witness ==
  \E s \in Slots :
    /\ slot[s].pc = "h2"
    /\ slot[s].req.route = "updateTask"
    /\ slot[s].req.body.status \in Statuses \ {"completed"}
    /\ tasks[slot[s].req.id].status = "completed"
    /\ tasks[slot[s].req.id].completedAt # NoDate
    /\ slot[s].doc.completedAt = NoDate
    /\ "completedAt" \in slot[s].mod

\* C8: in every reachable state, interleaved PUTs included, a stored task has a
\* completedAt exactly when its status is "completed".
C8_CompletedAtIffCompleted ==
  \A i \in DOMAIN tasks :
    tasks[i].live => (tasks[i].completedAt # NoDate <=> tasks[i].status = "completed")

----------------------------------------------------------------------------
(* Requests at the middleware: what a step shows of an arriving request *)

\* the routes behind authenticateToken of middleware/authMiddlesware.js, and all
\* routes behind either copy of the middleware
AuthRoutes == TaskRoutes \cup AdminRoutes \cup {"profile"}

Protected == AuthRoutes \cup LegacyAdminRoutes

AllAdminRoutes == AdminRoutes \cup LegacyAdminRoutes

\* the request was answered before any handler step: by a middleware, or by the
\* handler's own code ahead of its first store operation
ArrivalReplied(R) == resp' # NoResp /\ resp'.req.route \in R /\ AllIdle /\ slot' = slot

\* next() was called down to the handler
ArrivalEntered(s, R) ==
  slot[s].pc = "idle" /\ slot'[s].pc = "h1" /\ slot'[s].req.route \in R

\* a request with token k arrived on a route of R in this step
Presented(R, k) ==
  \/ ArrivalReplied(R) /\ resp'.req.tok = k
  \/ \E s \in Slots : ArrivalEntered(s, R) /\ slot'[s].req.tok = k

\* ... and went on with user u attached as req.user
Attached(R, k, u) ==
  \/ ArrivalReplied(R) /\ resp'.req.tok = k /\ resp'.uid = u /\ u # 0
  \/ \E s \in Slots : ArrivalEntered(s, R) /\ slot'[s].req.tok = k /\ slot'[s].uid = u

\* ... and was turned away by the middleware: no user attached, no handler entered
Rejected(R, k, status) ==
  ArrivalReplied(R) /\ resp'.req.tok = k /\ resp'.uid = 0 /\ resp'.status = status

Expired(k) == now >= k.iat + ExpiresIn

UserUsable(k) == k.uid \in DOMAIN users /\ users[k.uid].isActive

\* the four cases in which a request must not get past authentication
TokenFails(k) == k.sig # "ok" \/ Expired(k) \/ ~UserUsable(k)

AuthContract(R) ==
  \A k \in Presentable :
    Presented(R, k) =>
      IF TokenFails(k)
        THEN /\ Rejected(R, k, 401)
             /\ (k.sig = "ok" /\ Expired(k)) <=> (resp'.message = "Token expired")
        ELSE Attached(R, k, k.uid)

\* C4: the auth middleware answers 401 and calls no handler when there is no token,
\* when the token fails verification (the message tells expired from invalid), when
\* the token's user is not stored and when that user is inactive; in every other
\* case it attaches the stored user and calls the next handler.  Stated for every
\* route behind either copy of the middleware.
C4_AuthRejectsWith401 == [][AuthContract(Protected)]_vars

\* the same contract on the routes behind middleware/authMiddlesware.js alone
AuthContractOfMountedMiddleware == [][AuthContract(AuthRoutes)]_vars

EmailTaken(b) == \E i \in DOMAIN users : ToLower(users[i].email) = ToLower(b.email)

UsernameTaken(b) == \E i \in DOMAIN users : users[i].username = b.username

\* C5: a registration whose email equals a registered email, compared without
\* regard to case, fails with 400 "Email already registered"; one whose username is
\* registered and whose email is not fails with 400 "Username already taken";
\* neither creates a user.
C5_DuplicateRegistrationMessage ==
  [][/\ ArrivalReplied({"register"})
        => LET b == resp'.req.body IN
             /\ EmailTaken(b)
                => /\ resp'.status = 400
                   /\ resp'.message = "Email already registered"
                   /\ users' = users
             /\ (~EmailTaken(b) /\ UsernameTaken(b))
                => /\ resp'.status = 400
                   /\ resp'.message = "Username already taken"
                   /\ users' = users
     /\ \A s \in Slots :
          (slot[s].pc = "idle" /\ slot'[s].pc = "h2" /\ slot'[s].req.route = "register")
          => ~EmailTaken(slot'[s].req.body) /\ ~UsernameTaken(slot'[s].req.body)]_vars

\* C6 as stated: a token issued for user u at time t, presented before t+24h,
\* resolves to user u; presented at or after t+24h it is rejected with 401 "Token
\* expired" and no user is attached.
C6_TokenResolvesUntilExpiry ==
  [][\A k \in issued :
       Presented(AuthRoutes, k) =>
         IF ~Expired(k)
           THEN Attached(AuthRoutes, k, k.uid)
           ELSE Rejected(AuthRoutes, k, 401) /\ resp'.message = "Token expired"]_vars

\* C6, amended: before t+24h the token resolves to user u when u is stored and
\* active, and is otherwise rejected with 401 for that reason, never as expired and
\* never resolving to another user; at or after t+24h it is rejected with 401
\* "Token expired" and no user is attached.
C6_TokenResolvesOrExpires ==
  [][\A k \in issued :
       Presented(AuthRoutes, k) =>
         IF Expired(k)
           THEN Rejected(AuthRoutes, k, 401) /\ resp'.message = "Token expired"
         ELSE IF UserUsable(k)
           THEN Attached(AuthRoutes, k, k.uid)
         ELSE /\ Rejected(AuthRoutes, k, 401)
              /\ resp'.message = IF k.uid \in DOMAIN users
                                   THEN "User account is inactive"
                                   ELSE "Invalid token - user not found"]_vars

\* a token of a stored, active user is turned away at the very hour it expires
C6_Witness ==
  /\ resp.req.route \in AuthRoutes
  /\ resp.req.tok \in issued
  /\ now = resp.req.tok.iat + ExpiresIn
  /\ UserUsable(resp.req.tok)
  /\ resp.status = 401
  /\ resp.message = "Token expired"
  /\ resp.uid = 0

\* the request in r passed authentication and its user is a stored admin
AdminRequest(r) ==
  /\ r.req.tok \in issued
  /\ r.req.tok.uid = r.uid
  /\ r.uid \in DOMAIN users
  /\ users[r.uid].role = "admin"

\* C3: on every /api/admin route a handler step, and with it any store change, is
\* taken only for a request that passed authentication and whose user has role
\* admin; an authenticated user of another role is answered 403; the guard answers
\* 401 when the request has no user; an admin's request reaches the handler with
\* the user authentication attached, unchanged.
C3_AdminRoutesAdminOnly ==
  [][/\ \A s \in Slots :
          (Acted(s) /\ slot[s].req.route \in AllAdminRoutes) => AdminRequest(slot[s])
     /\ (resp'.req.route \in AllAdminRoutes /\ (users' # users \/ tasks' # tasks))
          => \E s \in Slots : Acted(s) /\ slot[s].req = resp'.req
     /\ \A k \in Presentable :
          (Presented(AdminRoutes, k) /\ ~TokenFails(k))
          => IF users[k.uid].role = "admin"
               THEN Attached(AdminRoutes, k, k.uid)
               ELSE /\ ArrivalReplied(AdminRoutes)
                    /\ resp'.status = 403
     /\ ~requireAdmin(0, users).next
     /\ requireAdmin(0, users).status = 401
     /\ \A u \in DOMAIN users :
          requireAdmin(u, users).next => requireAdmin(u, users).user = u]_vars

\* the admin has deactivated a user through the status route
C3_Witness ==
  /\ resp.req.route = "adminStatus"
  /\ resp.status = 200
  /\ resp.uid \in DOMAIN users
  /\ users[resp.uid].role = "admin"
  /\ resp.req.id # resp.uid
  /\ ~users[resp.req.id].isActive

SelfDeactivation(r) ==
  /\ r.pc = "h1"
  /\ r.req.route = "adminStatus"
  /\ r.req.id = r.uid
  /\ r.req.body.isActive = "false"

\* C9: PUT /api/admin/users/:id/status with isActive=false and the caller's own id
\* answers 400, writes nothing, and the caller's stored isActive stays true.
C9_SelfDeactivationRefused ==
  [][\A s \in Slots :
       (Acted(s) /\ SelfDeactivation(slot[s]))
       => /\ resp'.status = 400
          /\ slot'[s].pc = "idle"
          /\ users' = users
          /\ users'[slot[s].uid].isActive]_vars

C9_Witness ==
  /\ resp.req.route = "adminStatus"
  /\ resp.req.id = resp.uid
  /\ resp.req.body.isActive = "false"
  /\ resp.status = 400
  /\ resp.message = "You cannot deactivate your own account"
  /\ users[resp.uid].isActive

\* an authenticated caller who is not an admin arrives on an admin route
WrongRole(k) ==
  /\ Presented(AdminRoutes, k)
  /\ ~TokenFails(k)
  /\ users[k.uid].role # "admin"

\* C10 as stated: an authenticated but forbidden request is answered 403, both for
\* a non-admin on an admin route and for an admin deactivating their own account.
C10_ForbiddenIs403 ==
  [][/\ \A k \in Presentable : WrongRole(k) => resp'.status = 403
     /\ \A s \in Slots :
          (Acted(s) /\ SelfDeactivation(slot[s])) => resp'.status = 403]_vars

\* C10, amended: a non-admin on an admin route is answered 403; an admin
\* deactivating their own account is answered 400.
C10_WrongRole403SelfDeactivation400 ==
  [][/\ \A k \in Presentable : WrongRole(k) => resp'.status = 403
     /\ \A s \in Slots :
          (Acted(s) /\ SelfDeactivation(slot[s])) => resp'.status = 400]_vars

C10_Witness ==
  /\ resp.req.route \in AdminRoutes
  /\ resp.req.tok \in issued
  /\ resp.uid = resp.req.tok.uid
  /\ resp.uid \in DOMAIN users
  /\ users[resp.uid].role = "user"
  /\ resp.status = 403
  /\ resp.error = "Access denied"

\* a list request is answered in this step
ListAnswered(s) ==
  Acted(s) /\ slot[s].req.route \in ListRoutes /\ slot'[s].pc = "idle"

\* the response carries the requested page and limit (1 and 10 when omitted), the
\* number of matching records, and pages = ceil(total / limit) as a finite integer
PaginationRight(r, pg) ==
  LET p == IF r.req.body.page = Undef THEN 1 ELSE parseInt(r.req.body.page)
      l == IF r.req.body.limit = Undef THEN 10 ELSE parseInt(r.req.body.limit)
      total == Cardinality(listMatches(r))
  IN  /\ pg.page = p
      /\ pg.limit = l
      /\ pg.total = total
      /\ pg.pages.kind = "finite"
      /\ l > 0
      /\ (pg.pages.n - 1) * l < total
      /\ total <= pg.pages.n * l

\* C11: every list request, whatever page and limit it supplies, is answered with
\* a pagination object holding the requested page and limit (1 and 10 when
\* omitted), total = the number of matching records and pages = the finite integer
\* ceil(total / limit).
C11_PaginationMatchesRequest ==
  [][\A s \in Slots :
       ListAnswered(s)
       => resp'.status = 200 /\ PaginationRight(slot[s], resp'.pagination)]_vars

\* the same for the requests whose page and limit are at least 1
PaginationOfPositivePageAndLimit ==
  [][\A s \in Slots :
       (ListAnswered(s) /\ slot[s].req.body.page # "0" /\ slot[s].req.body.limit # "0")
       => resp'.status = 200 /\ PaginationRight(slot[s], resp'.pagination)]_vars

\* the sum of the values of an object of counts
RECURSIVE SumOf(_)
SumOf(f) ==
  IF DOMAIN f = {} THEN 0
  ELSE LET k == CHOOSE x \in DOMAIN f : TRUE
       IN  f[k] + SumOf([x \in DOMAIN f \ {k} |-> f[x]])

\* C12: in every response of GET /api/tasks/stats/summary the values of byStatus
\* sum to total, and in every response of GET /api/admin/stats the values of
\* byStatus and of byPriority each sum to total, also when other requests create
\* or delete tasks between the handler's queries.
C12_StatsSumToTotal ==
  (resp.req.route \in StatsRoutes /\ resp.status = 200)
  => /\ SumOf(resp.stats.byStatus) = resp.stats.total
     /\ resp.req.route = "adminStats"
        => SumOf(resp.stats.byPriority) = resp.stats.total

\* the elements of seq at the positions (p-1)*l+1 .. p*l that it has
Window(seq, p, l) ==
  LET first == (p - 1) * l + 1
      last == IF p * l < Len(seq) THEN p * l ELSE Len(seq)
  IN  IF first < 1 \/ last < first THEN << >>
      ELSE [i \in 1..(last - first + 1) |-> seq[first + i - 1]]

\* the answer is the page-p window of the caller's matching tasks, latest first
ListIsWindow(r, items) ==
  LET p == IF r.req.body.page = Undef THEN 1 ELSE parseInt(r.req.body.page)
      l == IF r.req.body.limit = Undef THEN 10 ELSE parseInt(r.req.body.limit)
      own == {i \in DOMAIN tasks : matchesTask(tasks[i], r.uid, r.req.body)}
  IN  /\ items = Window(sortDesc(own), p, l)
      /\ Len(items) <= l
      /\ \A k \in 1..Len(items) : tasks[items[k]].owner = r.uid

\* C13: GET /api/tasks with page p and limit l returns exactly the elements at
\* positions (p-1)*l+1 .. p*l of the caller's own matching tasks ordered by
\* creation time descending: no task of another owner, at most l tasks.
C13_ListIsPageWindow ==
  [][\A s \in Slots :
       (ListAnswered(s) /\ slot[s].req.route = "listTasks")
       => resp'.status = 200 /\ ListIsWindow(slot[s], resp'.items)]_vars

\* the same for the requests whose page and limit are at least 1
ListWindowOfPositivePageAndLimit ==
  [][\A s \in Slots :
       (ListAnswered(s) /\ slot[s].req.route = "listTasks"
        /\ slot[s].req.body.page # "0" /\ slot[s].req.body.limit # "0")
       => resp'.status = 200 /\ ListIsWindow(slot[s], resp'.items)]_vars

----------------------------------------------------------------------------
(* Task creation and update *)

\* the step of POST /api/tasks in slot s inserts one task of the caller, with the
\* defaults for the status and the priority the body leaves out
CreatedForCaller(s) ==
  LET b == slot[s].req.body
      new == tasks'[Len(tasks')]
  IN  /\ resp'.status = 201
      /\ Len(tasks') = Len(tasks) + 1
      /\ SubSeq(tasks', 1, Len(tasks)) = tasks
      /\ resp'.task = Len(tasks')
      /\ new.live
      /\ new.owner = slot[s].uid
      /\ b.status = Undef => new.status = "pending"
      /\ b.priority = Undef => new.priority = "medium"

\* the step answers 400 with a validation error and inserts nothing
CreateRefused ==
  /\ resp'.status = 400
  /\ resp'.error = "Validation Error"
  /\ tasks' = tasks

\* every field of the body that the schema validates is acceptable to it
FieldsValid(b) ==
  /\ b.title # Undef => (b.title # "" /\ Len(b.title) <= 100)
  /\ b.status \in Statuses \cup {Undef}
  /\ b.priority \in Priorities \cup {Undef}
  /\ b.dueDate \in {AbsentDate, NoDate} \/ b.dueDate >= now

\* C14 as stated: POST /api/tasks with a title creates exactly one task owned by the
\* caller, whatever owner the body carries, with status "pending" and priority
\* "medium" where the body has none; without a title it answers 400 with a
\* validation error and creates no task.
C14_TitleCreatesOwnedTask ==
  [][\A s \in Slots :
       (Acted(s) /\ At(s, "h1", "createTask"))
       => IF slot[s].req.body.title # Undef
            THEN CreatedForCaller(s)
            ELSE CreateRefused]_vars

\* C14: POST /api/tasks with a title, and with no field that fails the schema's
\* validation, creates exactly one task owned by the caller, whatever owner the body
\* carries, with status "pending" and priority "medium" where the body has none; a
\* body without a title, or with a field that fails validation, answers 400 with a
\* validation error and creates no task.
C14_ValidTitleCreatesOwnedTask ==
  [][\A s \in Slots :
       (Acted(s) /\ At(s, "h1", "createTask"))
       => IF slot[s].req.body.title # Undef /\ FieldsValid(slot[s].req.body)
            THEN CreatedForCaller(s)
            ELSE CreateRefused]_vars

\* a task was created for its caller by a body that names another owner and leaves
\* status and priority out
C14_Witness ==
  /\ resp.req.route = "createTask"
  /\ resp.status = 201
  /\ resp.req.body.owner \notin {0, resp.uid}
  /\ resp.req.body.status = Undef
  /\ resp.req.body.priority = Undef
  /\ tasks[resp.task].owner = resp.uid
  /\ tasks[resp.task].status = "pending"
  /\ tasks[resp.task].priority = "medium"

\* the fields a PUT body can set
UpdatableFields == {"title", "description", "status", "priority", "dueDate", "tags"}

\* the body carries field f
Supplied(b, f) == IF f = "dueDate" THEN b.dueDate # AbsentDate ELSE b[f] # Undef

----------------------------------------------------------------------------
(* Deletion *)

DeleteRoutes == {"deleteTask", "adminDeleteTask"}

\* the id of a task that was deleted
Deleted(T, i) == i \in DOMAIN T /\ ~T[i].live

\* the task a delete request may remove: any stored task for the admin route, a
\* stored task of the caller for the task route
Deletable(r) ==
  /\ r.req.id \in DOMAIN tasks
  /\ tasks[r.req.id].live
  /\ r.req.route = "deleteTask" => tasks[r.req.id].owner = r.uid

\* the stored tasks a request of user uid on route reads
Visible(T, route, uid) ==
  {i \in DOMAIN T : T[i].live /\ (route \in AdminRoutes \/ T[i].owner = uid)}

\* C16: an admin's DELETE /api/admin/tasks/:id removes the task whoever owns it and
\* DELETE /api/tasks/:id removes it only for its owner; a deleted task stays deleted
\* and no later get or list returns it and no summary or stats counts it; a delete
\* of an id that matches no task answers 404 and changes nothing.
C16_DeletedTaskIsGone ==
  [][/\ \A s \in Slots :
          (Acted(s) /\ slot[s].req.route \in DeleteRoutes)
          => IF slot[s].pc = "h1"
               THEN /\ tasks' = tasks
                    /\ IF Deletable(slot[s])
                         THEN slot'[s].pc = "h2"
                         ELSE resp'.status = 404 /\ slot'[s].pc = "idle"
               ELSE /\ resp'.status = 200
                    /\ Deleted(tasks', slot[s].req.id)
                    /\ \A j \in DOMAIN tasks \ {slot[s].req.id} : tasks'[j] = tasks[j]
     /\ \A i \in DOMAIN tasks : Deleted(tasks, i) => Deleted(tasks', i)
     /\ resp'.status \in {200, 201}
        => /\ resp'.task # 0 => ~Deleted(tasks', resp'.task)
           /\ resp'.req.route \in {"listTasks", "adminListTasks"}
              => \A k \in DOMAIN resp'.items : ~Deleted(tasks', resp'.items[k])
           /\ resp'.req.route \in StatsRoutes
              => resp'.stats.total
                   = Cardinality(Visible(tasks', resp'.req.route, resp'.uid))]_vars

\* an admin has deleted a task of another user, and a task of the same owner is left
C16_Witness ==
  /\ resp.req.route = "adminDeleteTask"
  /\ resp.status = 200
  /\ Deleted(tasks, resp.req.id)
  /\ \E i \in DOMAIN tasks : tasks[i].live /\ tasks[i].owner # resp.uid

----------------------------------------------------------------------------
(* Login *)

\* the stored users a login body is right for: the email is theirs (compared
\* without regard to case), they are active, the password hashes to their password
LoginMatches(U, b) ==
  {u \in DOMAIN U : /\ b.email # Undef
                    /\ b.password # Undef
                    /\ U[u].email = ToLower(b.email)
                    /\ U[u].isActive
                    /\ U[u].password = Hash(b.password)}

\* the body names the email of a stored account that is switched off
LoginInactive(U, b) ==
  /\ b.email # Undef
  /\ b.password # Undef
  /\ \E u \in DOMAIN U : U[u].email = ToLower(b.email) /\ ~U[u].isActive

\* C17: POST /api/auth/login issues a token exactly when the email is that of a
\* stored, active user whose stored hash the password matches, and the token then
\* resolves to that user; a body without email or without password gets 400; a
\* body for an inactive account gets an error with a message of its own, no token.
C17_LoginIssuesTokenIffMatch ==
  [][ArrivalReplied({"login"})
     => LET b == resp'.req.body
            m == LoginMatches(users, b)
        IN  /\ resp'.token # NoToken <=> m # {}
            /\ resp'.token # NoToken
               => /\ resp'.status = 200
                  /\ resp'.uid \in m
                  /\ resp'.token \in issued'
                  /\ authenticateToken(resp'.token, now, users').next
                  /\ authenticateToken(resp'.token, now, users').user = resp'.uid
            /\ resp'.token = NoToken => resp'.status >= 400 /\ issued' = issued
            /\ (b.email = Undef \/ b.password = Undef) => resp'.status = 400
            /\ LoginInactive(users, b)
               => /\ resp'.status \in {401, 403}
                  /\ resp'.error \notin {"Invalid credentials", "Missing credentials"}
                  /\ resp'.message \notin {"Invalid email or password",
                                           "Email and password are required"}]_vars

\* a user registered in this run has logged in and holds a token
C17_Witness ==
  /\ resp.req.route = "login"
  /\ resp.status = 200
  /\ resp.token # NoToken
  /\ resp.uid \notin DOMAIN InitUsers
  /\ resp.uid \in LoginMatches(users, resp.req.body)

\* the stored users without the account of email e
WithoutAccount(U, e) == SelectSeq(U, LAMBDA x : x.email # ToLower(e))

\* the caller's password is not the password of the account the email names
PasswordUnknown(U, b) ==
  \A u \in DOMAIN U : U[u].email = ToLower(b.email) => U[u].password # Hash(b.password)

\* C18: a login with an email and a password that is not the account's gets 401 and
\* the status and body it would get if the email were not registered at all.
C18_LoginHidesAccountExistence ==
  [][ArrivalReplied({"login"})
     => LET b == resp'.req.body IN
          (b.email # Undef /\ b.password # Undef /\ PasswordUnknown(users, b))
          => /\ resp'.status = 401
             /\ resp'.token = NoToken
             /\ ResponseBody(resp')
                  = ResponseBody(loginResponse(WithoutAccount(users, b.email),
                                               resp'.req, now))]_vars

\* the same for the accounts that are active
LoginHidesActiveAccounts ==
  [][ArrivalReplied({"login"})
     => LET b == resp'.req.body IN
          (b.email # Undef /\ b.password # Undef /\ PasswordUnknown(users, b)
           /\ ~LoginInactive(users, b))
          => /\ resp'.status = 401
             /\ resp'.token = NoToken
             /\ ResponseBody(resp')
                  = ResponseBody(loginResponse(WithoutAccount(users, b.email),
                                               resp'.req, now))]_vars

----------------------------------------------------------------------------
(* Passwords *)

\* the passwords that accounts were registered with
RegisteredPasswords == {"rootpw1", "secret1", "secret2", "secret3"}

\* C19: no response carries a user object with a password field; a registration
\* stores the hash of the password it was given, never the password itself; and no
\* later step, a save that modifies only isActive included, changes a stored
\* password, so every stored password is the hash of a registration password.
C19_PasswordHashedAndNeverSent ==
  [][/\ "password" \notin resp'.view
     /\ \A s \in Slots :
          (Acted(s) /\ At(s, "h2", "register") /\ resp'.status = 201)
          => /\ users'[Len(users')].password = Hash(slot[s].req.body.password)
             /\ users'[Len(users')].password # slot[s].req.body.password
     /\ \A u \in DOMAIN users : users'[u].password = users[u].password
     /\ \A u \in DOMAIN users' :
          users'[u].password \in {Hash(p) : p \in RegisteredPasswords}]_vars

\* the admin has switched off an account registered in this run, and the answer
\* carries the user's fields without the password
C19_Witness ==
  /\ resp.req.route = "adminStatus"
  /\ resp.status = 200
  /\ resp.req.id \notin DOMAIN InitUsers
  /\ resp.req.id \in DOMAIN users
  /\ ~users[resp.req.id].isActive
  /\ users[resp.req.id].password = Hash("secret3")
  /\ resp.view # {}
  /\ "password" \notin resp.view

----------------------------------------------------------------------------
(* The status route *)

----------------------------------------------------------------------------
(* The example scenario *)

\* the steps of the scenario, for a registration under username un: the
\* registration is answered 201 with a token that resolves to the new user; a POST
\* of {title: "T"} by that user is answered 201 with a pending task without
\* completedAt; a PUT of {status: "completed"} on a task of theirs is saved with a
\* completedAt; a summary over that one completed task says so
ScenarioSteps(un) ==
  /\ (ArrivalReplied({"register"}) /\ resp'.req.body.username = un
      /\ registerMatches(users, resp'.req.body) = {})
     => resp'.status = 201
  /\ \A s \in Slots :
       (Acted(s) /\ At(s, "h2", "register") /\ slot[s].req.body.username = un)
       => /\ resp'.status = 201
          /\ resp'.token \in issued'
          /\ authenticateToken(resp'.token, now, users').next
          /\ users'[authenticateToken(resp'.token, now, users').user].username = un
  /\ \A s \in Slots :
       (Acted(s) /\ At(s, "h1", "createTask")
        /\ slot[s].req.body = Body("T", Undef, Undef, AbsentDate))
       => /\ resp'.status = 201
          /\ tasks'[resp'.task].owner = slot[s].uid
          /\ tasks'[resp'.task].status = "pending"
          /\ tasks'[resp'.task].completedAt = NoDate
  /\ \A s \in Slots :
       (Acted(s) /\ slot[s].req.route = "updateTask"
        /\ slot[s].req.body = Body(Undef, "completed", Undef, AbsentDate)
        /\ findOneOwned(tasks, slot[s].req.id, slot[s].uid) # 0)
       => IF slot[s].pc = "h1"
            THEN slot'[s].pc = "h2"
            ELSE /\ resp'.status = 200
                 /\ tasks'[slot[s].req.id].status = "completed"
                 /\ tasks'[slot[s].req.id].completedAt # NoDate
  /\ \A s \in Slots :
       (Acted(s) /\ At(s, "h3", "summary")
        /\ \E i \in DOMAIN tasks :
             /\ tasks[i].status = "completed"
             /\ tasks[i].dueDate = NoDate
             /\ {j \in DOMAIN tasks : tasks[j].live /\ tasks[j].owner = slot[s].uid} = {i})
       => /\ resp'.status = 200
          /\ resp'.stats.total = 1
          /\ resp'.stats.overdue = 0
          /\ resp'.stats.byStatus = [v \in {"completed"} |-> 1]

\* C21 as stated: register {username: "al", email: "a@x.com", password: "secret1"}
\* returns 201 with a token; POST /api/tasks {title: "T"} with it returns 201 with
\* status "pending" and no completedAt; PUT {status: "completed"} sets completedAt;
\* the summary then returns total 1, overdue 0, byStatus {completed: 1}.
C21_ScenarioWithUsernameAl == [][ScenarioSteps("al")]_vars

\* C21: the same sequence with a username of at least three characters, "alice".
C21_ScenarioWithUsernameAlice == [][ScenarioSteps("alice")]_vars

\* the end of the scenario: alice, registered in this run, reads a summary of her
\* one completed task
C21_Witness ==
  /\ resp.req.route = "summary"
  /\ resp.status = 200
  /\ users[resp.uid].username = "alice"
  /\ users[resp.uid].email = "a@x.com"
  /\ resp.req.tok \in issued
  /\ resp.stats.total = 1
  /\ resp.stats.overdue = 0
  /\ resp.stats.byStatus = [v \in {"completed"} |-> 1]
  /\ Len(tasks) = 1
  /\ tasks[1].completedAt # NoDate

----------------------------------------------------------------------------
(* Registrations that race *)

\* no two stored users share a username or a lowercased email
UniqueUsers(U) ==
  \A i, j \in DOMAIN U :
    i # j => (U[i].username # U[j].username /\ ToLower(U[i].email) # ToLower(U[j].email))

\* the fields of a registration body that a stored user already has
Conflicts(U, b) ==
  {f \in {"email", "username"} :
     \E i \in DOMAIN U : (IF f = "email" THEN ToLower(U[i].email) = ToLower(b.email)
                                         ELSE U[i].username = b.username)}

\* C22: in every reachable state, also when the existence checks of two
\* registrations both run before either insert, no two stored users share a
\* username or a lowercased email; the insert that comes second stores nothing and
\* is answered 400 "Duplicate Error" with an entry that names a conflicting field,
\* in that one step (no 500, no retry).
C22_RegistrationRaceKeepsUsersUnique ==
  [][/\ UniqueUsers(users')
     /\ \A s \in Slots :
          (Acted(s) /\ At(s, "h2", "register"))
          => IF Conflicts(users, slot[s].req.body) # {}
               THEN /\ users' = users
                    /\ slot'[s].pc = "idle"
                    /\ resp'.status = 400
                    /\ resp'.error = "Duplicate Error"
                    /\ resp'.token = NoToken
                    /\ \E f \in Conflicts(users, slot[s].req.body) :
                         resp'.errors = {FieldError(f, f \o " already exists")}
               ELSE /\ resp'.status = 201
                    /\ Len(users') = Len(users) + 1]_vars

\* the registration that lost the race has its answer: its existence check had
\* found nobody, and the unique index refused its insert
C22_Witness ==
  /\ resp.req.route = "register"
  /\ resp.status = 400
  /\ resp.error = "Duplicate Error"
  /\ resp.errors # {}
  /\ Conflicts(users, resp.req.body) # {}
  /\ UniqueUsers(users)

----------------------------------------------------------------------------
(* Admin lockout *)

ActiveAdmins(U) == {u \in DOMAIN U : U[u].role = "admin" /\ U[u].isActive}

\* C23: starting with an active admin, every state reached by status requests,
\* interleaved ones included, has an active admin.
C23_AnActiveAdminRemains == ActiveAdmins(users) # {}

----------------------------------------------------------------------------
(* Deactivation and reactivation *)

\* the stored user u is switched off
Deactivated(U, u) == u \in DOMAIN U /\ ~U[u].isActive

\* a login body with the email of seeded user u and the password u registered with
OriginalCredentials(u, b) ==
  /\ b.email # Undef
  /\ b.password # Undef
  /\ InitUsers[u].email = ToLower(b.email)
  /\ InitUsers[u].password = Hash(b.password)

\* C24: while a user is deactivated, every request that arrives with a token of
\* theirs, whenever issued, is rejected with 401 and every login with their email
\* is refused without a token; the save that reactivates them makes their
\* unexpired tokens and their original password good again, and from then on
\* requests with those tokens are attached to the user and a login with the
\* original password gets a token.
C24_DeactivatedUntilReactivated ==
  [][/\ \A k \in issued :
          (Presented(AuthRoutes, k) /\ k.uid \in DOMAIN users)
          => IF Deactivated(users, k.uid)
               THEN Rejected(AuthRoutes, k, 401)
               ELSE ~Expired(k) => Attached(AuthRoutes, k, k.uid)
     /\ ArrivalReplied({"login"})
        => \A u \in DOMAIN InitUsers :
             /\ (Deactivated(users, u) /\ resp'.req.body.email # Undef
                 /\ users[u].email = ToLower(resp'.req.body.email))
                => (resp'.token = NoToken /\ resp'.status >= 400 /\ issued' = issued)
             /\ (~Deactivated(users, u) /\ OriginalCredentials(u, resp'.req.body))
                => (resp'.status = 200 /\ resp'.uid = u /\ resp'.token \in issued')
     /\ \A s \in Slots :
          (Acted(s) /\ At(s, "h2", "adminStatus"))
          => LET u == slot[s].req.id IN
               IF slot[s].req.body.isActive = "false"
                 THEN /\ Deactivated(users', u)
                      /\ \A k \in issued :
                           k.uid = u => ~authenticateToken(k, now, users').next
                 ELSE /\ ~Deactivated(users', u)
                      /\ users'[u].password = users[u].password
                      /\ \A k \in issued :
                           (k.uid = u /\ ~Expired(k))
                           => authenticateToken(k, now, users').user = u
     /\ \A u \in DOMAIN users :
          users'[u].isActive # users[u].isActive
          => \E s \in Slots : Acted(s) /\ At(s, "h2", "adminStatus")
                              /\ slot[s].req.id = u]_vars

\* a deactivated user's unexpired token has just been turned away
C24_Witness ==
  /\ resp.req.route \in AuthRoutes
  /\ resp.req.tok \in issued
  /\ Deactivated(users, resp.req.tok.uid)
  /\ ~Expired(resp.req.tok)
  /\ resp.status = 401
  /\ resp.message = "User account is inactive"
  /\ resp.uid = 0

----------------------------------------------------------------------------
(* Roles *)

Admins(U) == {u \in DOMAIN U : U[u].role = "admin"}

\* C25: a registration stores a user with role "user" and isActive true whatever
\* role or isActive its body carries; no step changes the role of a stored user;
\* the users with role admin are those of the initial state.
C25_RolesNeverChange ==
  [][/\ \A s \in Slots :
          (Acted(s) /\ At(s, "h2", "register") /\ resp'.status = 201)
          => /\ Len(users') = Len(users) + 1
             /\ users'[Len(users')].role = "user"
             /\ users'[Len(users')].isActive
     /\ \A u \in DOMAIN users : users'[u].role = users[u].role
     /\ Admins(users') = Admins(InitUsers)]_vars

\* a registration that asked for role admin and isActive false was stored as an
\* active user
C25_Witness ==
  /\ resp.req.route = "register"
  /\ resp.status = 201
  /\ resp.req.body.role = "admin"
  /\ resp.req.body.isActive = "false"
  /\ users[resp.uid].role = "user"
  /\ users[resp.uid].isActive
  /\ Admins(users) = Admins(InitUsers)

----------------------------------------------------------------------------
(* A delete and a late save *)

\* C26: a DELETE that answers 200 has removed the task; a removed task is in no
\* later state of the store; the save of a PUT that read the task before the
\* delete and writes after it changes nothing and is answered with an error.
C26_LateSaveDoesNotRecreate ==
  [][/\ \A s \in Slots :
          (Acted(s) /\ slot[s].req.route \in DeleteRoutes /\ resp'.status = 200)
          => Deleted(tasks', slot[s].req.id)
     /\ \A i \in DOMAIN tasks : Deleted(tasks, i) => Deleted(tasks', i)
     /\ \A s \in Slots :
          (Acted(s) /\ At(s, "h2", "updateTask") /\ Deleted(tasks, slot[s].req.id))
          => /\ tasks' = tasks
             /\ resp'.status >= 400
             /\ resp'.task = 0]_vars

\* the save of a PUT has just failed on a task that was deleted after the PUT had
\* read it
C26_Witness ==
  /\ resp.req.route = "updateTask"
  /\ resp.status = 500
  /\ Deleted(tasks, resp.req.id)
  /\ resp.uid # 0

\* the tasks of T that are past due at time t: they have a due date, it is earlier
\* than t, and their status is pending, in-progress or cancelled
PastDue(T, t) ==
  {i \in DOMAIN T : /\ T[i].live
                    /\ T[i].dueDate \in 0..(t - 1)
                    /\ T[i].status \in {"pending", "in-progress", "cancelled"}}

\* C27: the overdue count of GET /api/tasks/stats/summary is the number of the
\* caller's tasks whose due date is earlier than the request time and whose status
\* is not "completed" (tasks without a due date and completed tasks never count;
\* cancelled, pending and in-progress tasks past due do), and GET /api/admin/stats
\* counts by the same rule over all tasks.
C27_OverdueCount ==
  [][\A s \in Slots :
       /\ (Acted(s) /\ At(s, "h3", "summary"))
          => resp'.stats.overdue =
               Cardinality({i \in PastDue(tasks, now) : tasks[i].owner = slot[s].uid})
       /\ (Acted(s) /\ At(s, "h3", "adminStats"))
          => resp'.stats.overdue = Cardinality(PastDue(tasks, now))]_vars

\* a summary that counts one overdue task of a caller who also has a task that is
\* past due but completed or cancelled, or has no due date
C27_Witness ==
  /\ resp.req.route = "summary"
  /\ resp.status = 200
  /\ resp.stats.overdue = 1
  /\ \E i, j \in DOMAIN tasks :
       /\ i # j
       /\ tasks[i].owner = resp.uid /\ tasks[j].owner = resp.uid
       /\ tasks[i].status = "cancelled" /\ tasks[i].dueDate = 0
       /\ tasks[j].status = "completed" /\ tasks[j].dueDate = 0
  /\ now > 0

\* the response the error handler sends for the failure it was handed
Normalized(s) == Acted(s) /\ slot[s].pc = "error"

\* the mapping of the failure kinds: validation, duplicate key, malformed id, token
KnownKinds(e, r) ==
  /\ e.name = "ValidationError"
     => /\ r.status = 400
        /\ {x.field : x \in r.errors} = e.paths
        /\ Cardinality(r.errors) = Cardinality(e.paths)
  /\ e.code = 11000
     => /\ r.status = 400
        /\ \E x \in r.errors : x.field = e.keyValue
  /\ e.name = "CastError" => r.status = 400
  /\ e.name \in {"JsonWebTokenError", "TokenExpiredError"} => r.status = 401

OtherKind(e) ==
  /\ e.name \notin {"ValidationError", "CastError", "JsonWebTokenError", "TokenExpiredError"}
  /\ e.code # 11000

\* C28 as stated: validation failure -> 400 with one entry per violated field,
\* duplicate key -> 400 with an entry naming the field, malformed id -> 400, token
\* failure -> 401, and every other failure -> 500 "Internal Server Error".
C28_ErrorMapping ==
  [][\A s \in Slots :
       Normalized(s)
       => /\ KnownKinds(slot[s].doc, resp')
          /\ OtherKind(slot[s].doc)
             => /\ resp'.status = 500
                /\ resp'.error = "Internal Server Error"]_vars

\* C28 amended: the mapping holds for a failure that carries no statusCode of its
\* own; a failure that carries one is answered with that status and its own message.
C28_ErrorMappingUnlessStatusCode ==
  [][\A s \in Slots :
       Normalized(s)
       => IF slot[s].doc.statusCode = 0
            THEN /\ KnownKinds(slot[s].doc, resp')
                 /\ OtherKind(slot[s].doc)
                    => /\ resp'.status = 500
                       /\ resp'.error = "Internal Server Error"
            ELSE /\ resp'.status = slot[s].doc.statusCode
                 /\ resp'.error = slot[s].doc.message]_vars

\* a validation failure of two fields answered with two entries
C28_Witness ==
  /\ resp.req.route = "createTask"
  /\ resp.status = 400
  /\ resp.error = "Validation Error"
  /\ Cardinality(resp.errors) = 2

\* the kinds of failure the error handler reports field by field
FieldLevelErrors == {"Validation Error", "Duplicate Error", "Invalid ID Format"}

\* C29: every error response (status 400 or above), whoever sends it, is an object
\* with a string field error and a string field message, and it has an errors list
\* only for a field-level failure.  (The stack field depends on NODE_ENV, which is
\* not part of the state.)
C29_ErrorEnvelope ==
  resp.status >= 400
  => /\ resp.error # Undef
     /\ resp.message # Undef
     /\ resp.errors # {} => resp.error \in FieldLevelErrors

\* the failures a handler, a middleware or the body parser can raise
Failures ==
  HandlerErrors \cup BodyErrors
  \cup {ValidationError(P) : P \in (SUBSET (TaskPaths \cup {"username", "email", "password"})) \ {{}}}

\* r is the error handler's response to one of them
SentByErrorHandler(r) == \E e \in Failures : r = errorHandler(e, r.req, r.uid)

\* C30: route handlers and middleware never catch store, validation or token
\* failures themselves; every response with an error status is the error handler's
\* response to a failure, and is produced nowhere else.
C30_OnlyErrorHandlerSendsErrors ==
  resp.status >= 400 => SentByErrorHandler(resp)

=============================================================================
